---- MODULE Spec2Model ----
(***************************************************************************)
(* GPS-Compass Python client: NMEA line framing, checksum verification,    *)
(* field splitting, per-sentence aggregation (display worker and headless  *)
(* tester) and the circular moving-average heading filter.                 *)
(*                                                                         *)
(* Text is a sequence of one-character strings.  An optional value is      *)
(* None (the empty tuple) or Some(v) (a one-element tuple).  A Python      *)
(* float is held in tenths (545.4 is 5454), heading angles in tenths of a  *)
(* degree; sines and cosines are held in ten-thousandths.                 *)
(***************************************************************************)
EXTENDS Integers, Sequences, FiniteSets, TLC

VARIABLES
    pin,        \* argument of the pure parsing function under test
    pout,       \* its results, None before the call
    stream,     \* history: the bytes ser.read has returned so far, in order
    buf,        \* SerialReader.buf / main's buf: the accumulator
    handed,     \* lines passed to handle_sentence so far, in order
    logq,       \* SerialReader.logq: lines put on the log queue
    frontend,   \* "display" (nmea_display.py) or "tester" (serial_tester.py)
    nav,        \* NMEAState / the tester's state dict
    fir,        \* SerialReader.heading_fir
    filtered_heading,    \* SerialReader.filtered_heading
    heading_offset_deg,  \* SerialReader.heading_offset_deg
    added,      \* history: the headings passed to add() since the last reset
    resized,    \* history of SpecFIR: set_window or reset was called
    ncalls,     \* history: number of handle_sentence calls / filter calls
    last,       \* history: the last call made and the state it started from
    pc,         \* where the worker thread is in SerialReader.run
    stop_event, \* NMEAGui.stop_event, shared with the worker
    ser,        \* SerialReader.ser: "unopened", "open" or "closed"
    q,          \* SerialReader.q: the snapshots put on the output queue
    gui,        \* the control thread: the call it is in, and that call's locals
    tmp         \* locals of the worker thread: last_push, rad, old, loaded values

vars == <<pin, pout, stream, buf, handed, logq, frontend, nav, fir,
          filtered_heading, heading_offset_deg, added, resized, ncalls, last,
          pc, stop_event, ser, q, gui, tmp>>

\* the variables of the two threads
threads == <<pc, stop_event, ser, q, gui, tmp>>

None == <<>>
Some(v) == <<v>>

Min(a, b) == IF a < b THEN a ELSE b
Max(a, b) == IF a > b THEN a ELSE b

(***************************************************************************)
(* Characters                                                              *)
(***************************************************************************)
\* ord(ch); "uFFFD" is the replacement character of decode(errors="replace")
ord ==
    ( "\t" :> 9) @@ ( "\n" :> 10) @@ ( "\r" :> 13) @@ ( " " :> 32) @@
    ( "$" :> 36) @@ ( "*" :> 42) @@ ( "+" :> 43) @@ ( "," :> 44) @@
    ( "-" :> 45) @@ ( "." :> 46) @@ ( ":" :> 58) @@ ( "0" :> 48) @@
    ( "1" :> 49) @@ ( "2" :> 50) @@ ( "3" :> 51) @@ ( "4" :> 52) @@
    ( "5" :> 53) @@ ( "6" :> 54) @@ ( "7" :> 55) @@ ( "8" :> 56) @@
    ( "9" :> 57) @@ ( "A" :> 65) @@ ( "B" :> 66) @@ ( "C" :> 67) @@
    ( "D" :> 68) @@ ( "E" :> 69) @@ ( "F" :> 70) @@ ( "G" :> 71) @@
    ( "H" :> 72) @@ ( "I" :> 73) @@ ( "J" :> 74) @@ ( "K" :> 75) @@
    ( "L" :> 76) @@ ( "M" :> 77) @@ ( "N" :> 78) @@ ( "O" :> 79) @@
    ( "P" :> 80) @@ ( "Q" :> 81) @@ ( "R" :> 82) @@ ( "S" :> 83) @@
    ( "T" :> 84) @@ ( "U" :> 85) @@ ( "V" :> 86) @@ ( "W" :> 87) @@
    ( "X" :> 88) @@ ( "Y" :> 89) @@ ( "Z" :> 90) @@ ( "a" :> 97) @@
    ( "b" :> 98) @@ ( "c" :> 99) @@ ( "d" :> 100) @@ ( "e" :> 101) @@
    ( "f" :> 102) @@ ( "g" :> 103) @@ ( "h" :> 104) @@ ( "i" :> 105) @@
    ( "j" :> 106) @@ ( "k" :> 107) @@ ( "l" :> 108) @@ ( "m" :> 109) @@
    ( "n" :> 110) @@ ( "o" :> 111) @@ ( "p" :> 112) @@ ( "q" :> 113) @@
    ( "r" :> 114) @@ ( "s" :> 115) @@ ( "t" :> 116) @@ ( "u" :> 117) @@
    ( "v" :> 118) @@ ( "w" :> 119) @@ ( "x" :> 120) @@ ( "y" :> 121) @@
    ( "z" :> 122) @@ ( "uFFFD" :> 65533)

UpperMap ==
    ("a" :> "A") @@ ("b" :> "B") @@ ("c" :> "C") @@ ("d" :> "D") @@
    ("e" :> "E") @@ ("f" :> "F") @@ ("g" :> "G") @@ ("h" :> "H") @@
    ("i" :> "I") @@ ("j" :> "J") @@ ("k" :> "K") @@ ("l" :> "L") @@
    ("m" :> "M") @@ ("n" :> "N") @@ ("o" :> "O") @@ ("p" :> "P") @@
    ("q" :> "Q") @@ ("r" :> "R") @@ ("s" :> "S") @@ ("t" :> "T") @@
    ("u" :> "U") @@ ("v" :> "V") @@ ("w" :> "W") @@ ("x" :> "X") @@
    ("y" :> "Y") @@ ("z" :> "Z")

\* str.upper()
upper(s) == [i \in 1..Len(s) |-> IF s[i] \in DOMAIN UpperMap THEN UpperMap[s[i]] ELSE s[i]]

Whitespace == {" ", "\t", "\n", "\r"}

Digits == <<"0", "1", "2", "3", "4", "5", "6", "7", "8", "9">>
HexDigits == Digits \o <<"A", "B", "C", "D", "E", "F">>
IsDigit(ch) == \E i \in 1..10 : Digits[i] = ch
DigitVal(ch) == (CHOOSE i \in 1..10 : Digits[i] = ch) - 1

(***************************************************************************)
(* String primitives of Python                                             *)
(***************************************************************************)
\* s[a:b] with 0-based a and exclusive b, both already clipped to >= 0
Slice(s, a, b) == SubSeq(s, a + 1, Min(b, Len(s)))

\* s[a:]
From(s, a) == SubSeq(s, a + 1, Len(s))

\* s.find(ch): 0-based index of the first occurrence, -1 if there is none
find(s, ch) ==
    IF \E i \in 1..Len(s) : s[i] = ch
    THEN (CHOOSE i \in 1..Len(s) : s[i] = ch /\ \A j \in 1..(i - 1) : s[j] # ch) - 1
    ELSE -1

\* ch in s
Contains(s, ch) == \E i \in 1..Len(s) : s[i] = ch

\* s.startswith(ch)
startswith(s, ch) == Len(s) >= 1 /\ s[1] = ch

\* s.strip()
strip(s) ==
    LET keep == {i \in 1..Len(s) : s[i] \notin Whitespace}
    IN  IF keep = {} THEN <<>>
        ELSE SubSeq(s, CHOOSE i \in keep : \A j \in keep : i <= j,
                       CHOOSE i \in keep : \A j \in keep : i >= j)

RECURSIVE split(_, _)
\* s.split(sep): the list of the maximal pieces between separators
split(s, sep) ==
    LET i == find(s, sep)
    IN  IF i = -1 THEN <<s>>
        ELSE <<Slice(s, 0, i)>> \o split(From(s, i + 1), sep)

\* s.split(sep, 1): at most one cut, at the first separator
split1(s, sep) ==
    LET i == find(s, sep)
    IN  IF i = -1 THEN <<s>> ELSE <<Slice(s, 0, i), From(s, i + 1)>>

RECURSIVE HexOf(_)
\* the hexadecimal digits of n >= 0, most significant first, "" for 0
HexOf(n) == IF n = 0 THEN <<>> ELSE HexOf(n \div 16) \o <<HexDigits[(n % 16) + 1]>>

\* f"{n:02X}"
Hex02(n) ==
    LET h == HexOf(n)
    IN  [i \in 1..(2 - Len(h)) |-> "0"] \o h

RECURSIVE DecOf(_)
\* the decimal digits of n >= 0, "" for 0
DecOf(n) == IF n = 0 THEN <<>> ELSE DecOf(n \div 10) \o <<Digits[(n % 10) + 1]>>

\* f"{n:0{w}d}": sign first, then zero padding up to the total width w
FormatInt(n, w) ==
    LET a    == IF n < 0 THEN -n ELSE n
        d    == IF a = 0 THEN <<"0">> ELSE DecOf(a)
        sign == IF n < 0 THEN <<"-">> ELSE <<>>
    IN  sign \o [i \in 1..(w - Len(sign) - Len(d)) |-> "0"] \o d

(***************************************************************************)
(* Sentence Parser                                                         *)
(***************************************************************************)
\* bit k of n >= 0
Bit(n, k) == (n \div (2 ^ k)) % 2

RECURSIVE XorBits(_, _)
\* bits 0..k of the XOR of the ord() of all characters of data: a bit of
\* the result is the parity of the number of characters that have it set
XorBits(data, k) ==
    LET b == Cardinality({i \in 1..Len(data) : Bit(ord[data[i]], k) = 1}) % 2
    IN  IF k = 0 THEN b ELSE (2 ^ k) * b + XorBits(data, k - 1)

\* calc after "calc = 0; for ch in data: calc ^= ord(ch)"; ord() of the
\* characters in use has at most 16 bits
XorAll(data) == XorBits(data, 15)

\* ChecksumBody comparing the suffix as written, without .upper()
ChecksumBody_NoUpper(sentence) ==
    LET parts == split1(From(strip(sentence), 1), "*")
    IN  IF Len(parts) # 2 THEN FALSE
        ELSE Hex02(XorAll(parts[1])) = Slice(parts[2], 0, 2)

\* the try-block shared by both copies of nmea_checksum_ok; unpacking a
\* one-element split raises ValueError, which the except turns into False
ChecksumBody(sentence) ==
    LET parts == split1(From(strip(sentence), 1), "*")
    IN  IF Len(parts) # 2 THEN FALSE
        ELSE Hex02(XorAll(parts[1])) = upper(Slice(parts[2], 0, 2))

\* nmea_display.nmea_checksum_ok
nmea_checksum_ok(sentence) ==
    IF ~Contains(sentence, "*") \/ ~startswith(sentence, "$") THEN FALSE
    ELSE ChecksumBody(sentence)

\* serial_tester.nmea_checksum_ok: no test of the leading "$"
tester_nmea_checksum_ok(sentence) ==
    IF ~Contains(sentence, "*") THEN FALSE
    ELSE ChecksumBody(sentence)

NoFields == [talker |-> None, typ |-> None, f |-> <<>>]

\* split_fields taking the body to the end of the line, checksum included
split_fields_KeepSuffix(sentence) ==
    LET s     == strip(sentence)
        parts == split(From(s, 1), ",")
    IN  IF ~startswith(s, "$") THEN NoFields
        ELSE IF Len(parts) = 0 \/ Len(parts[1]) < 5 THEN NoFields
        ELSE [talker |-> Some(Slice(parts[1], 0, 2)),
              typ    |-> Some(From(parts[1], 2)),
              f      |-> Tail(parts)]

\* split_fields, the same text in both files
split_fields(sentence) ==
    LET s     == strip(sentence)
        star  == find(s, "*")
        body  == IF star >= 0 THEN Slice(s, 1, star) ELSE From(s, 1)
        parts == split(body, ",")
    IN  IF ~startswith(s, "$") THEN NoFields
        ELSE IF Len(parts) = 0 \/ Len(parts[1]) < 5 THEN NoFields
        ELSE [talker |-> Some(Slice(parts[1], 0, 2)),
              typ    |-> Some(From(parts[1], 2)),
              f      |-> Tail(parts)]

(***************************************************************************)
(* Field Decoders                                                          *)
(***************************************************************************)
RECURSIVE DecVal(_, _)
\* the value of a run of decimal digits, continuing from acc
DecVal(ds, acc) ==
    IF ds = <<>> THEN acc ELSE DecVal(Tail(ds), 10 * acc + DigitVal(Head(ds)))

AllDigits(s) == \A i \in 1..Len(s) : IsDigit(s[i])

\* the literal without its sign, and the sign as +1 or -1
Unsigned(u) == IF Len(u) >= 1 /\ u[1] \in {"+", "-"} THEN Tail(u) ELSE u
SignOf(u) == IF Len(u) >= 1 /\ u[1] = "-" THEN -1 ELSE 1

\* safe_int: int(s), None where int() raises.  int() accepts surrounding
\* whitespace, one sign and at least one decimal digit.
safe_int(s) ==
    LET u == strip(s)
        d == Unsigned(u)
    IN  IF Len(d) >= 1 /\ AllDigits(d) THEN Some(SignOf(u) * DecVal(d, 0))
        ELSE None

\* safe_float: float(s) in tenths, None where float() raises.  Literals are
\* decimal: digits, optionally a point and digits, at least one digit in
\* all; exponent forms and the words inf and nan are not in the alphabet
\* the sentences use.  The first fractional digit is kept.
safe_float(s) ==
    LET u    == strip(s)
        d    == Unsigned(u)
        dot  == find(d, ".")
        ip   == IF dot = -1 THEN d ELSE Slice(d, 0, dot)
        fp   == IF dot = -1 THEN <<>> ELSE From(d, dot + 1)
        frac == IF fp = <<>> THEN 0 ELSE DigitVal(fp[1])
    IN  IF AllDigits(ip) /\ AllDigits(fp) /\ Len(ip) + Len(fp) >= 1
        THEN Some(SignOf(u) * (10 * DecVal(ip, 0) + frac))
        ELSE None

\* norm360 on tenths of a degree; % is the floored modulo of Python
norm360(deg) == ((deg % 3600) + 3600) % 3600

(***************************************************************************)
(* Trigonometry on whole degrees, values in ten-thousandths                *)
(***************************************************************************)
SinTab == <<
    0, 175, 349, 523, 698, 872, 1045, 1219, 1392, 1564, 1736, 1908, 2079,
    2250, 2419, 2588, 2756, 2924, 3090, 3256, 3420, 3584, 3746, 3907, 4067,
    4226, 4384, 4540, 4695, 4848, 5000, 5150, 5299, 5446, 5592, 5736, 5878,
    6018, 6157, 6293, 6428, 6561, 6691, 6820, 6947, 7071, 7193, 7314, 7431,
    7547, 7660, 7771, 7880, 7986, 8090, 8192, 8290, 8387, 8480, 8572, 8660,
    8746, 8829, 8910, 8988, 9063, 9135, 9205, 9272, 9336, 9397, 9455, 9511,
    9563, 9613, 9659, 9703, 9744, 9781, 9816, 9848, 9877, 9903, 9925, 9945,
    9962, 9976, 9986, 9994, 9998, 10000 >>

\* sine of d whole degrees, 0 <= d < 360
SinDeg(d) ==
    IF d <= 90 THEN SinTab[d + 1]
    ELSE IF d <= 180 THEN SinTab[180 - d + 1]
    ELSE IF d <= 270 THEN -SinTab[d - 180 + 1]
    ELSE -SinTab[360 - d + 1]

\* math.sin(rad) and math.cos(rad) of a stored sample; the sample is kept
\* as the tenths of a degree that math.radians was given
sin(a) == SinDeg((a \div 10) % 360)
cos(a) == SinDeg(((a \div 10) + 90) % 360)

Abs(x) == IF x < 0 THEN -x ELSE x

\* the whole degree d in 0..90 whose direction is nearest to that of (x, y),
\* x, y >= 0: the one with the smallest cross product, the lowest on a tie
\* (the cross product grows with d, so that degree is next to its sign change)
NearestDeg(y, x) ==
    LET cross(d) == x * SinDeg(d) - y * SinDeg(90 - d)
        up == CHOOSE d \in 0..90 : cross(d) >= 0 /\ (d = 0 \/ cross(d - 1) < 0)
    IN  IF up > 0 /\ -cross(up - 1) <= cross(up) THEN up - 1 ELSE up

\* math.degrees(math.atan2(y, x)) to the nearest whole degree, in tenths,
\* in (-180, 180]; atan2(0, 0) is 0 as in the C library
atan2deg(y, x) ==
    IF y = 0 /\ x = 0 THEN 0
    ELSE LET acute == NearestDeg(Abs(y), Abs(x))
             d     == IF x >= 0 THEN acute ELSE 180 - acute
         IN  10 * (IF y < 0 THEN -d ELSE d)

(***************************************************************************)
(* Heading Filter                                                          *)
(***************************************************************************)
\* HeadingFIR.__init__
HeadingFIR(window) ==
    [window |-> Max(1, window), angles |-> <<>>, sum_sin |-> 0, sum_cos |-> 0]

\* PopOldest that forgets to take the cosine out of sum_cos
PopOldest_KeepCos(h) ==
    [h EXCEPT !.angles  = Tail(h.angles),
              !.sum_sin = h.sum_sin - sin(Head(h.angles))]

\* PopOldest that takes out the second-oldest sample: pop(1) where there is one
PopOldest_Second(h) ==
    LET k == IF Len(h.angles) >= 2 THEN 2 ELSE 1
    IN  [h EXCEPT !.angles  = SubSeq(h.angles, 1, k - 1) \o
                              SubSeq(h.angles, k + 1, Len(h.angles)),
                  !.sum_sin = h.sum_sin - sin(h.angles[k]),
                  !.sum_cos = h.sum_cos - cos(h.angles[k])]

\* old = self.angles.pop(0) and the two subtractions
PopOldest(h) ==
    [h EXCEPT !.angles  = Tail(h.angles),
              !.sum_sin = h.sum_sin - sin(Head(h.angles)),
              !.sum_cos = h.sum_cos - cos(Head(h.angles))]

\* eviction from the wrong end: pop() instead of pop(0)
EvictWhileOver_Newest(h) ==
    LET keep == Min(Len(h.angles), h.window)
        gone == SubSeq(h.angles, keep + 1, Len(h.angles))
        S[i \in 0..Len(gone)] == IF i = 0 THEN 0 ELSE S[i - 1] + sin(gone[i])
        C[i \in 0..Len(gone)] == IF i = 0 THEN 0 ELSE C[i - 1] + cos(gone[i])
    IN  [h EXCEPT !.angles  = SubSeq(h.angles, 1, keep),
                  !.sum_sin = h.sum_sin - S[Len(gone)],
                  !.sum_cos = h.sum_cos - C[Len(gone)]]

RECURSIVE EvictWhileOver(_)
\* while len(self.angles) > self.window: evict the oldest
EvictWhileOver(h) ==
    IF Len(h.angles) > h.window THEN EvictWhileOver(PopOldest(h)) ELSE h

\* set_window clamping to at least 0 instead of 1
set_window_ClampZero(h, n) == EvictWhileOver([h EXCEPT !.window = Max(0, n)])

\* set_window that evicts against the old size and assigns the new one last
set_window_AssignLast(h, n) == [EvictWhileOver(h) EXCEPT !.window = Max(1, n)]

\* HeadingFIR.set_window
set_window(h, n) == EvictWhileOver([h EXCEPT !.window = Max(1, n)])

\* HeadingFIR.reset
reset(h) == [h EXCEPT !.angles = <<>>, !.sum_sin = 0, !.sum_cos = 0]

\* add that evicts as soon as the window is full, keeping window - 1 samples
add_EvictEarly(h, deg) ==
    LET rad == norm360(deg)
        h1  == [h EXCEPT !.angles  = Append(h.angles, rad),
                         !.sum_sin = h.sum_sin + sin(rad),
                         !.sum_cos = h.sum_cos + cos(rad)]
    IN  IF Len(h1.angles) >= h1.window THEN PopOldest(h1) ELSE h1

\* HeadingFIR.add
add(h, deg) ==
    LET rad == norm360(deg)
        h1  == [h EXCEPT !.angles  = Append(h.angles, rad),
                         !.sum_sin = h.sum_sin + sin(rad),
                         !.sum_cos = h.sum_cos + cos(rad)]
    IN  IF Len(h1.angles) > h1.window THEN PopOldest(h1) ELSE h1

\* value as the arithmetic mean of the retained angles
value_ArithmeticMean(h) ==
    LET S[i \in 0..Len(h.angles)] == IF i = 0 THEN 0 ELSE S[i - 1] + h.angles[i]
    IN  IF h.angles = <<>> THEN None
        ELSE Some(norm360(S[Len(h.angles)] \div Len(h.angles)))

\* HeadingFIR.value
value(h) ==
    IF h.angles = <<>> THEN None
    ELSE Some(norm360(atan2deg(h.sum_sin, h.sum_cos)))

(***************************************************************************)
(* State Aggregator                                                        *)
(***************************************************************************)
\* NMEAState.__init__, and the initial state dict of serial_tester
NMEAState ==
    [utc |-> None, date |-> None, fix |-> 0, sats_used |-> None,
     sats_in_view |-> None, pdop |-> None, hdop |-> None, vdop |-> None,
     alt_m |-> None, heading_T |-> None, last_talker |-> None,
     ok_count |-> 0, bad_count |-> 0]

\* FIX_QUAL.get(fix, str(fix)), the same table in both files
FixLabel(fix) ==
    IF fix = 0 THEN <<"N", "o", " ", "f", "i", "x">>
    ELSE IF fix = 1 THEN <<"G", "P", "S">>
    ELSE IF fix = 2 THEN <<"D", "G", "P", "S">>
    ELSE IF fix = 4 THEN <<"R", "T", "K", " ", "F", "i", "x", "e", "d">>
    ELSE IF fix = 5 THEN <<"R", "T", "K", " ", "F", "l", "o", "a", "t">>
    ELSE IF fix = 6
    THEN <<"D", "e", "a", "d", " ", "r", "e", "c", "k", "o", "n", "i", "n", "g">>
    ELSE FormatInt(fix, 1)

\* f"{x:.1f}" of a float held in tenths; str(x) prints the same digits for
\* a float with one decimal
Fixed1(t) ==
    LET a == IF t < 0 THEN -t ELSE t
    IN  (IF t < 0 THEN <<"-">> ELSE <<>>)
        \o FormatInt(a \div 10, 1) \o <<".">> \o FormatInt(a % 10, 1)

Unknown == <<"?">>

\* NMEAState.as_dict; "u00B0" is the degree sign
as_dict(n) ==
    [UTC       |-> IF n.utc = None THEN <<"-", "-", ":", "-", "-", ":", "-", "-">>
                   ELSE n.utc[1],
     Date      |-> IF n.date = None THEN <<"-", "-", "-", "-", "-", "-", "-", "-">>
                   ELSE n.date[1],
     Talker    |-> IF n.last_talker = None THEN <<"-", "-">> ELSE n.last_talker[1],
     Fix       |-> FixLabel(n.fix),
     SatsUsed  |-> IF n.sats_used = None THEN Unknown ELSE FormatInt(n.sats_used[1], 1),
     InView    |-> IF n.sats_in_view = None THEN Unknown
                   ELSE FormatInt(n.sats_in_view[1], 1),
     PDOP      |-> IF n.pdop = None THEN Unknown ELSE Fixed1(n.pdop[1]),
     HDOP      |-> IF n.hdop = None THEN Unknown ELSE Fixed1(n.hdop[1]),
     VDOP      |-> IF n.vdop = None THEN Unknown ELSE Fixed1(n.vdop[1]),
     Altitude  |-> IF n.alt_m = None THEN Unknown
                   ELSE Fixed1(n.alt_m[1]) \o <<" ", "m">>,
     Heading   |-> IF n.heading_T = None THEN Unknown
                   ELSE Fixed1(n.heading_T[1]) \o <<"u00B0", "T">>,
     Checksums |-> <<"O", "K", ":">> \o FormatInt(n.ok_count, 1)
                   \o <<" ", "B", "a", "d", ":">> \o FormatInt(n.bad_count, 1)]

GGA == <<"G", "G", "A">>
GSA == <<"G", "S", "A">>
GSV == <<"G", "S", "V">>
ZDA == <<"Z", "D", "A">>
HDT == <<"H", "D", "T">>

\* f[i] with Python's 0-based index
Fld(f, i) == f[i + 1]

\* x if x is not None, else the previous value
OrKeep(x, prev) == IF x = None THEN prev ELSE x

\* "safe_int(s) or 0": None and 0 both give 0
IntOrZero(s) == IF safe_int(s) = None THEN 0 ELSE safe_int(s)[1]

\* the hhmmss prefix of field 0 as "HH:MM:SS", when "f[0] and len(f[0]) >= 6"
UtcOf(f0, prev) ==
    IF Len(f0) >= 6
    THEN Some(Slice(f0, 0, 2) \o <<":">> \o Slice(f0, 2, 4) \o <<":">> \o Slice(f0, 4, 6))
    ELSE prev

\* DateOf with "is not None" for the truth test: zero is taken
DateOf_AllowZero(f, prev) ==
    LET year == safe_int(Fld(f, 3))
        mon  == safe_int(Fld(f, 2))
        day  == safe_int(Fld(f, 1))
    IN  IF year # None /\ mon # None /\ day # None
        THEN Some(FormatInt(year[1], 4) \o <<"-">> \o FormatInt(mon[1], 2)
                  \o <<"-">> \o FormatInt(day[1], 2))
        ELSE prev

\* f"{year:04d}-{mon:02d}-{day:02d}" when "year and mon and day"
DateOf(f, prev) ==
    LET year == safe_int(Fld(f, 3))
        mon  == safe_int(Fld(f, 2))
        day  == safe_int(Fld(f, 1))
    IN  IF year # None /\ mon # None /\ day # None
           /\ year[1] # 0 /\ mon[1] # 0 /\ day[1] # 0
        THEN Some(FormatInt(year[1], 4) \o <<"-">> \o FormatInt(mon[1], 2)
                  \o <<"-">> \o FormatInt(day[1], 2))
        ELSE prev

\* the count taken with "if s" for "if s.strip()"
UsedSlots_NoStrip(f) == Cardinality({i \in 2..13 : Fld(f, i) # <<>>})

\* used = sum(1 for s in f[2:14] if s.strip())
UsedSlots(f) == Cardinality({i \in 2..13 : strip(Fld(f, i)) # <<>>})

\* the checksum bookkeeping at the head of handle_sentence
Count(n, ok) ==
    IF ok THEN [n EXCEPT !.ok_count = n.ok_count + 1]
    ELSE [n EXCEPT !.bad_count = n.bad_count + 1]

\* the GSA branch, the same in both files
OnGSA(n, f) ==
    [n EXCEPT !.sats_used = IF UsedSlots(f) > 0 THEN Some(UsedSlots(f)) ELSE n.sats_used,
              !.pdop = OrKeep(safe_float(Fld(f, 14)), n.pdop),
              !.hdop = OrKeep(safe_float(Fld(f, 15)), n.hdop),
              !.vdop = OrKeep(safe_float(Fld(f, 16)), n.vdop)]

\* the GSV branch, the same in both files
OnGSV(n, f) == [n EXCEPT !.sats_in_view = OrKeep(safe_int(Fld(f, 2)), n.sats_in_view)]

\* the GGA branch reading HDOP and altitude from each other's field
OnGGA_SwapHdopAlt(n, f) ==
    [n EXCEPT !.fix = IntOrZero(Fld(f, 5)),
              !.sats_used = OrKeep(safe_int(Fld(f, 6)), n.sats_used),
              !.hdop = IF Fld(f, 8) # <<>> THEN OrKeep(safe_float(Fld(f, 8)), n.hdop)
                       ELSE n.hdop,
              !.alt_m = IF Fld(f, 7) # <<>> THEN OrKeep(safe_float(Fld(f, 7)), n.alt_m)
                        ELSE n.alt_m,
              !.utc = UtcOf(Fld(f, 0), n.utc)]

\* the GGA branch of SerialReader.handle_sentence
OnGGA(n, f) ==
    [n EXCEPT !.fix = IntOrZero(Fld(f, 5)),
              !.sats_used = OrKeep(safe_int(Fld(f, 6)), n.sats_used),
              !.hdop = IF Fld(f, 7) # <<>> THEN OrKeep(safe_float(Fld(f, 7)), n.hdop)
                       ELSE n.hdop,
              !.alt_m = IF Fld(f, 8) # <<>> THEN OrKeep(safe_float(Fld(f, 8)), n.alt_m)
                        ELSE n.alt_m,
              !.utc = UtcOf(Fld(f, 0), n.utc)]

\* the ZDA branch of SerialReader.handle_sentence
OnZDA(n, f) == [n EXCEPT !.utc = UtcOf(Fld(f, 0), n.utc), !.date = DateOf(f, n.date)]

\* the HDT branch feeding the filter the heading with the offset added
OnHDT_OffsetFed(w, f) ==
    LET hdg == safe_float(Fld(f, 0))
        h   == norm360(hdg[1])
        fr  == add(w.fir, h + w.heading_offset_deg)
        flt == value(fr)
    IN  IF hdg = None THEN w
        ELSE [w EXCEPT !.nav.heading_T = Some(h),
                       !.fir = fr,
                       !.filtered_heading =
                           IF flt = None THEN None
                           ELSE Some(norm360(flt[1] + w.heading_offset_deg))]

\* the HDT branch of SerialReader.handle_sentence on the worker state w
OnHDT(w, f) ==
    LET hdg == safe_float(Fld(f, 0))
        h   == norm360(hdg[1])
        fr  == add(w.fir, h)
        flt == value(fr)
    IN  IF hdg = None THEN w
        ELSE [w EXCEPT !.nav.heading_T = Some(h),
                       !.fir = fr,
                       !.filtered_heading =
                           IF flt = None THEN None
                           ELSE Some(norm360(flt[1] + w.heading_offset_deg))]

\* handle_sentence that stops after the bookkeeping when the checksum is bad
handle_sentence_SkipBad(w, sentence) ==
    LET sf == split_fields(sentence)
        n1 == Count(w.nav, nmea_checksum_ok(sentence))
        n2 == IF sf.talker # None /\ sf.talker # Some(<<>>)
              THEN [n1 EXCEPT !.last_talker = sf.talker] ELSE n1
        w2 == [w EXCEPT !.nav = n2]
        f  == sf.f
    IN  IF ~nmea_checksum_ok(sentence) THEN w2
        ELSE IF sf.typ = Some(GGA) /\ Len(f) >= 14 THEN [w2 EXCEPT !.nav = OnGGA(n2, f)]
        ELSE IF sf.typ = Some(GSA) /\ Len(f) >= 17 THEN [w2 EXCEPT !.nav = OnGSA(n2, f)]
        ELSE IF sf.typ = Some(GSV) /\ Len(f) >= 4 THEN [w2 EXCEPT !.nav = OnGSV(n2, f)]
        ELSE IF sf.typ = Some(ZDA) /\ Len(f) >= 6 THEN [w2 EXCEPT !.nav = OnZDA(n2, f)]
        ELSE IF sf.typ = Some(HDT) /\ Len(f) >= 2 THEN OnHDT(w2, f)
        ELSE w2

\* handle_sentence that takes a GGA sentence of 13 fields
handle_sentence_ShortGGA(w, sentence) ==
    LET sf == split_fields(sentence)
        n1 == Count(w.nav, nmea_checksum_ok(sentence))
        n2 == IF sf.talker # None /\ sf.talker # Some(<<>>)
              THEN [n1 EXCEPT !.last_talker = sf.talker] ELSE n1
        w2 == [w EXCEPT !.nav = n2]
        f  == sf.f
    IN  IF sf.typ = Some(GGA) /\ Len(f) >= 13 THEN [w2 EXCEPT !.nav = OnGGA(n2, f)]
        ELSE IF sf.typ = Some(GSA) /\ Len(f) >= 17 THEN [w2 EXCEPT !.nav = OnGSA(n2, f)]
        ELSE IF sf.typ = Some(GSV) /\ Len(f) >= 4 THEN [w2 EXCEPT !.nav = OnGSV(n2, f)]
        ELSE IF sf.typ = Some(ZDA) /\ Len(f) >= 6 THEN [w2 EXCEPT !.nav = OnZDA(n2, f)]
        ELSE IF sf.typ = Some(HDT) /\ Len(f) >= 2 THEN OnHDT(w2, f)
        ELSE w2

\* SerialReader.handle_sentence on the worker state
\* w = [nav, fir, filtered_heading, heading_offset_deg]
handle_sentence(w, sentence) ==
    LET sf == split_fields(sentence)
        n1 == Count(w.nav, nmea_checksum_ok(sentence))
        n2 == IF sf.talker # None /\ sf.talker # Some(<<>>)
              THEN [n1 EXCEPT !.last_talker = sf.talker] ELSE n1
        w2 == [w EXCEPT !.nav = n2]
        f  == sf.f
    IN  IF sf.typ = Some(GGA) /\ Len(f) >= 14 THEN [w2 EXCEPT !.nav = OnGGA(n2, f)]
        ELSE IF sf.typ = Some(GSA) /\ Len(f) >= 17 THEN [w2 EXCEPT !.nav = OnGSA(n2, f)]
        ELSE IF sf.typ = Some(GSV) /\ Len(f) >= 4 THEN [w2 EXCEPT !.nav = OnGSV(n2, f)]
        ELSE IF sf.typ = Some(ZDA) /\ Len(f) >= 6 THEN [w2 EXCEPT !.nav = OnZDA(n2, f)]
        ELSE IF sf.typ = Some(HDT) /\ Len(f) >= 2 THEN OnHDT(w2, f)
        ELSE w2

\* the GGA branch of serial_tester.handle_sentence: hdop and alt_m take
\* whatever safe_float returns when the field is non-empty
tester_OnGGA(n, f) ==
    [n EXCEPT !.fix = IntOrZero(Fld(f, 5)),
              !.sats_used = OrKeep(safe_int(Fld(f, 6)), n.sats_used),
              !.hdop = IF Fld(f, 7) # <<>> THEN safe_float(Fld(f, 7)) ELSE n.hdop,
              !.alt_m = IF Fld(f, 8) # <<>> THEN safe_float(Fld(f, 8)) ELSE n.alt_m,
              !.utc = UtcOf(Fld(f, 0), n.utc)]

\* the ZDA branch of serial_tester.handle_sentence
tester_OnZDA(n, f) ==
    [n EXCEPT !.utc = UtcOf(Fld(f, 0), n.utc),
              !.date = IF Fld(f, 3) # <<>> /\ Fld(f, 2) # <<>> /\ Fld(f, 1) # <<>>
                       THEN DateOf(f, n.date) ELSE n.date]

\* the HDT branch of serial_tester.handle_sentence: the heading as decoded
tester_OnHDT(n, f) == [n EXCEPT !.heading_T = OrKeep(safe_float(Fld(f, 0)), n.heading_T)]

\* serial_tester.handle_sentence on the state dict n
tester_handle_sentence(n, sentence) ==
    LET sf == split_fields(sentence)
        n1 == Count(n, tester_nmea_checksum_ok(sentence))
        n2 == [n1 EXCEPT !.last_talker = sf.talker]
        f  == sf.f
    IN  IF ~startswith(sentence, "$") THEN n
        ELSE IF sf.typ = Some(GGA) /\ Len(f) >= 14 THEN tester_OnGGA(n2, f)
        ELSE IF sf.typ = Some(GSA) /\ Len(f) >= 17 THEN OnGSA(n2, f)
        ELSE IF sf.typ = Some(GSV) /\ Len(f) >= 4 THEN OnGSV(n2, f)
        ELSE IF sf.typ = Some(ZDA) /\ Len(f) >= 6 THEN tester_OnZDA(n2, f)
        ELSE IF sf.typ = Some(HDT) /\ Len(f) >= 2 THEN tester_OnHDT(n2, f)
        ELSE n2

(***************************************************************************)
(* Line Framer                                                             *)
(***************************************************************************)
\* bytes(...).decode(errors="replace") on single-byte text: an ASCII byte is
\* its character, the byte "xFF" is not valid UTF-8 and becomes U+FFFD
decode(bs) == [i \in 1..Len(bs) |-> IF bs[i] = "xFF" THEN "uFFFD" ELSE bs[i]]

\* idx = min([x for x in (i_cr, i_lf) if x != -1], default=-1)
TermIdx(b) ==
    LET i_cr == find(b, "\r")
        i_lf == find(b, "\n")
    IN  IF i_cr = -1 THEN i_lf
        ELSE IF i_lf = -1 THEN i_cr
        ELSE Min(i_cr, i_lf)

\* DropLen that drops two bytes whenever a byte follows the terminator
DropLen_AnyPair(b, idx) == IF idx + 1 < Len(b) THEN 2 ELSE 1

\* drop = 2 if idx + 1 < len(buf) and buf[idx:idx+2] in (b"\r\n", b"\n\r") else 1
DropLen(b, idx) ==
    IF idx + 1 < Len(b)
       /\ Slice(b, idx, idx + 2) \in {<<"\r", "\n">>, <<"\n", "\r">>}
    THEN 2 ELSE 1

RECURSIVE FrameLoop_KeepBlank(_, _)
\* FrameLoop without the test "if line:"
FrameLoop_KeepBlank(b, out) ==
    LET idx  == TermIdx(b)
        line == strip(decode(Slice(b, 0, idx)))
    IN  IF idx = -1 THEN [buf |-> b, lines |-> out]
        ELSE FrameLoop_KeepBlank(From(b, idx + DropLen(b, idx)), Append(out, line))

RECURSIVE FrameLoop(_, _)
\* the inner "while True" of run/main on accumulator b: the accumulator it
\* leaves and the non-blank lines it passes on, appended to out
FrameLoop(b, out) ==
    LET idx  == TermIdx(b)
        line == strip(decode(Slice(b, 0, idx)))
    IN  IF idx = -1 THEN [buf |-> b, lines |-> out]
        ELSE FrameLoop(From(b, idx + DropLen(b, idx)),
                       IF line # <<>> THEN Append(out, line) ELSE out)

(***************************************************************************)
(* Worker state as one record, and the handling of a batch of lines        *)
(***************************************************************************)
Worker == [nav |-> nav, fir |-> fir, filtered_heading |-> filtered_heading,
           heading_offset_deg |-> heading_offset_deg]

\* handle_sentence of the running front end; the tester has no filter
Handle(fe, w, line) ==
    IF fe = "display" THEN handle_sentence(w, line)
    ELSE [w EXCEPT !.nav = tester_handle_sentence(w.nav, line)]

RECURSIVE HandleAll(_, _, _)
HandleAll(fe, w, lines) ==
    IF lines = <<>> THEN w
    ELSE HandleAll(fe, Handle(fe, w, Head(lines)), Tail(lines))

(***************************************************************************)
(* Inputs                                                                  *)
(***************************************************************************)
MaxStream == 5      \* bytes delivered by the serial port in one behaviour
MaxHandled == 2     \* sentences handled in one behaviour
MaxOps == 4         \* filter calls in one behaviour
MaxWindow == 3      \* largest window size asked for
MaxChecksumLen == 5 \* longest line over ChecksumAlphabet
MaxSplitLen == 7    \* longest line over SplitAlphabet

Bytes == {"\r", "\n", " ", "a", "xFF"}

\* "J" is 0x4A, so "$J*4A" carries a correct checksum
ChecksumAlphabet == {"$", "*", "J", "4", "A", "a"}
SplitAlphabet == {"$", ",", "*", "G"}

StringsOver(A, n) == UNION {[1..k -> A] : k \in 1..n}

\* $GPGGA,123519,4807.038,N,01131.000,E,1,08,0.9,545.4,M,46.9,M,,
GGA_full ==
    <<"$", "G", "P", "G", "G", "A", ",", "1", "2", "3", "5", "1", "9", ",",
      "4", "8", "0", "7", ".", "0", "3", "8", ",", "N", ",", "0", "1", "1",
      "3", "1", ".", "0", "0", "0", ",", "E", ",", "1", ",", "0", "8", ",",
      "0", ".", "9", ",", "5", "4", "5", ".", "4", ",", "M", ",", "4", "6",
      ".", "9", ",", "M", ",", ",">>

\* $GPGGA,,,,,,x,,x,x,M,,M,,
GGA_blank ==
    <<"$", "G", "P", "G", "G", "A", ",", ",", ",", ",", ",", ",", "x", ",",
      ",", "x", ",", "x", ",", "M", ",", ",", "M", ",", ",">>

\* $GPGGA,123519,,,,,1,08,0.9,545.4,M,,M,
GGA_short ==
    <<"$", "G", "P", "G", "G", "A", ",", "1", "2", "3", "5", "1", "9", ",",
      ",", ",", ",", ",", "1", ",", "0", "8", ",", "0", ".", "9", ",", "5",
      "4", "5", ".", "4", ",", "M", ",", ",", "M", ",">>

\* $GPGSA,A,3,04,05,,09,12,,,24,,,,,2.5,1.3,2.1
GSA_five ==
    <<"$", "G", "P", "G", "S", "A", ",", "A", ",", "3", ",", "0", "4", ",",
      "0", "5", ",", ",", "0", "9", ",", "1", "2", ",", ",", ",", "2", "4",
      ",", ",", ",", ",", ",", "2", ".", "5", ",", "1", ".", "3", ",", "2",
      ".", "1">>

\* $GPGSA,A,1,,,,,,,,,,,,,,x,
GSA_blank ==
    <<"$", "G", "P", "G", "S", "A", ",", "A", ",", "1", ",", ",", ",", ",",
      ",", ",", ",", ",", ",", ",", ",", ",", ",", ",", "x", ",">>

\* $GPGSA,A,3,04,05,,09,12,,,24,,,,,2.5,1.3
GSA_short ==
    <<"$", "G", "P", "G", "S", "A", ",", "A", ",", "3", ",", "0", "4", ",",
      "0", "5", ",", ",", "0", "9", ",", "1", "2", ",", ",", ",", "2", "4",
      ",", ",", ",", ",", ",", "2", ".", "5", ",", "1", ".", "3">>

\* $GPGSV,3,1,11,03
GSV_ok ==
    <<"$", "G", "P", "G", "S", "V", ",", "3", ",", "1", ",", "1", "1", ",",
      "0", "3">>

\* $GPGSV,3,1,,03
GSV_blank ==
    <<"$", "G", "P", "G", "S", "V", ",", "3", ",", "1", ",", ",", "0", "3">>

\* $GPGSV,3,1,11
GSV_short ==
    <<"$", "G", "P", "G", "S", "V", ",", "3", ",", "1", ",", "1", "1">>

\* $GPZDA,201530,04,07,2002,00,00
ZDA_ok ==
    <<"$", "G", "P", "Z", "D", "A", ",", "2", "0", "1", "5", "3", "0", ",",
      "0", "4", ",", "0", "7", ",", "2", "0", "0", "2", ",", "0", "0", ",",
      "0", "0">>

\* $GPZDA,2015,00,07,2002,00,00
ZDA_zero ==
    <<"$", "G", "P", "Z", "D", "A", ",", "2", "0", "1", "5", ",", "0", "0",
      ",", "0", "7", ",", "2", "0", "0", "2", ",", "0", "0", ",", "0", "0">>

\* $GPZDA,,,x,,,
ZDA_blank ==
    <<"$", "G", "P", "Z", "D", "A", ",", ",", ",", "x", ",", ",", ",">>

\* $GPZDA,201530,04,07,2002,00
ZDA_short ==
    <<"$", "G", "P", "Z", "D", "A", ",", "2", "0", "1", "5", "3", "0", ",",
      "0", "4", ",", "0", "7", ",", "2", "0", "0", "2", ",", "0", "0">>

\* $GPHDT,359.0,T
HDT_359 ==
    <<"$", "G", "P", "H", "D", "T", ",", "3", "5", "9", ".", "0", ",", "T">>

\* $HEHDT,1.0,T
HDT_1 ==
    <<"$", "H", "E", "H", "D", "T", ",", "1", ".", "0", ",", "T">>

\* $HEHDT,-10,T
HDT_neg ==
    <<"$", "H", "E", "H", "D", "T", ",", "-", "1", "0", ",", "T">>

\* $GPHDT,,T
HDT_blank ==
    <<"$", "G", "P", "H", "D", "T", ",", ",", "T">>

\* $GPHDT,x,T
HDT_bad ==
    <<"$", "G", "P", "H", "D", "T", ",", "x", ",", "T">>

\* $GPHDT,90.0
HDT_short ==
    <<"$", "G", "P", "H", "D", "T", ",", "9", "0", ".", "0">>

\* $GPHDT,10,T
HDT_10 ==
    <<"$", "G", "P", "H", "D", "T", ",", "1", "0", ",", "T">>

\* $GPZDA,201531,5,8,2003,00,00
ZDA_pad ==
    <<"$", "G", "P", "Z", "D", "A", ",", "2", "0", "1", "5", "3", "1", ",",
      "5", ",", "8", ",", "2", "0", "0", "3", ",", "0", "0", ",", "0", "0">>

\* $GPGSA,A,3, ,07,,,,,,,,,,,1.0,,
GSA_space ==
    <<"$", "G", "P", "G", "S", "A", ",", "A", ",", "3", ",", " ", ",", "0",
      "7", ",", ",", ",", ",", ",", ",", ",", ",", ",", ",", ",", "1", ".",
      "0", ",", ",">>

\* $GPRMC,123519,A
RMC_other ==
    <<"$", "G", "P", "R", "M", "C", ",", "1", "2", "3", "5", "1", "9", ",",
      "A">>

\* $GP,1,2
Tok_short ==
    <<"$", "G", "P", ",", "1", ",", "2">>

\* GPHDT,90.0,T
No_dollar ==
    <<"G", "P", "H", "D", "T", ",", "9", "0", ".", "0", ",", "T">>

\* every modelled sentence body with its two checksum digits (XOR of the
\* characters after the first one) and a suffix with the last digit changed
Sentences == <<
    [body |-> GGA_full, cs |-> <<"4", "7">>, bad |-> <<"4", "0">>],
    [body |-> GGA_blank, cs |-> <<"2", "E">>, bad |-> <<"2", "0">>],
    [body |-> GGA_short, cs |-> <<"4", "7">>, bad |-> <<"4", "0">>],
    [body |-> GSA_five, cs |-> <<"3", "9">>, bad |-> <<"3", "0">>],
    [body |-> GSA_blank, cs |-> <<"6", "6">>, bad |-> <<"6", "0">>],
    [body |-> GSA_short, cs |-> <<"3", "8">>, bad |-> <<"3", "0">>],
    [body |-> GSV_ok, cs |-> <<"5", "4">>, bad |-> <<"5", "0">>],
    [body |-> GSV_blank, cs |-> <<"5", "4">>, bad |-> <<"5", "0">>],
    [body |-> GSV_short, cs |-> <<"7", "B">>, bad |-> <<"7", "0">>],
    [body |-> ZDA_ok, cs |-> <<"4", "E">>, bad |-> <<"4", "0">>],
    [body |-> ZDA_zero, cs |-> <<"4", "9">>, bad |-> <<"4", "0">>],
    [body |-> ZDA_blank, cs |-> <<"3", "0">>, bad |-> <<"3", "1">>],
    [body |-> ZDA_short, cs |-> <<"6", "2">>, bad |-> <<"6", "0">>],
    [body |-> HDT_359, cs |-> <<"3", "A">>, bad |-> <<"3", "0">>],
    [body |-> HDT_1, cs |-> <<"2", "E">>, bad |-> <<"2", "0">>],
    [body |-> HDT_neg, cs |-> <<"2", "D">>, bad |-> <<"2", "0">>],
    [body |-> HDT_blank, cs |-> <<"1", "B">>, bad |-> <<"1", "0">>],
    [body |-> HDT_bad, cs |-> <<"6", "3">>, bad |-> <<"6", "0">>],
    [body |-> HDT_short, cs |-> <<"7", "4">>, bad |-> <<"7", "0">>],
    [body |-> RMC_other, cs |-> <<"0", "7">>, bad |-> <<"0", "0">>],
    [body |-> Tok_short, cs |-> <<"1", "4">>, bad |-> <<"1", "0">>],
    [body |-> No_dollar, cs |-> <<"4", "B">>, bad |-> <<"4", "0">>],
    [body |-> HDT_10, cs |-> <<"1", "A">>, bad |-> <<"1", "0">>],
    [body |-> ZDA_pad, cs |-> <<"4", "0">>, bad |-> <<"4", "1">>],
    [body |-> GSA_space, cs |-> <<"1", "4">>, bad |-> <<"1", "0">>] >>

Good(s) == s.body \o <<"*">> \o s.cs
Bad(s) == s.body \o <<"*">> \o s.bad

\* the lines the framer hands over: every body with its correct and with a
\* wrong checksum, and two bodies without any checksum
Lines ==
    {Good(Sentences[i]) : i \in 1..Len(Sentences)}
    \cup {Bad(Sentences[i]) : i \in 1..Len(Sentences)}
    \cup {GGA_full, HDT_359}

\* arguments of the parsing functions: lines as the framer delivers them
ParseInputs ==
    StringsOver(ChecksumAlphabet, MaxChecksumLen)
    \cup StringsOver(SplitAlphabet, MaxSplitLen)
    \cup Lines

\* headings passed to HeadingFIR.add, in tenths of a degree
AddAngles == {10, 3590, 4500, -900}

Idle == [op |-> "none"]

\* no worker thread started, the control thread in no call
NoThreads ==
    /\ pc = "unstarted"
    /\ stop_event = FALSE
    /\ ser = "unopened"
    /\ q = <<>>
    /\ gui = [at |-> "idle"]
    /\ tmp = [last_push |-> 0]

\* the name and the argument of a recorded filter call, and the number of
\* samples the filter held when it was made
Brief(l) ==
    [op   |-> l.op,
     arg  |-> IF l.op = "add" THEN l.deg
              ELSE IF l.op \in {"set_window", "init"} THEN l.n ELSE 0,
     held |-> IF l.op = "init" THEN 0 ELSE Len(l.pre.angles)]

(***************************************************************************)
(* Parsing functions applied to one line                                   *)
(***************************************************************************)
InitRest ==
    /\ stream = <<>> /\ buf = <<>> /\ handed = <<>> /\ logq = <<>>
    /\ nav = NMEAState
    /\ filtered_heading = None
    /\ heading_offset_deg = 0
    /\ added = <<>> /\ resized = FALSE /\ ncalls = 0
    /\ last = Idle
    /\ NoThreads

InitParse ==
    /\ pin \in ParseInputs
    /\ pout = None
    /\ frontend = "display"
    /\ fir = HeadingFIR(15)
    /\ InitRest

CallChecksum ==
    /\ pout = None
    /\ pout' = Some([op |-> "nmea_checksum_ok",
                     display |-> nmea_checksum_ok(pin),
                     tester  |-> tester_nmea_checksum_ok(pin)])
    /\ UNCHANGED <<pin, stream, buf, handed, logq, frontend, nav, fir,
                   filtered_heading, heading_offset_deg, added, resized,
                   ncalls, last>>
    /\ UNCHANGED threads

CallSplit ==
    /\ pout = None
    /\ pout' = Some([op |-> "split_fields", r |-> split_fields(pin)])
    /\ UNCHANGED <<pin, stream, buf, handed, logq, frontend, nav, fir,
                   filtered_heading, heading_offset_deg, added, resized,
                   ncalls, last>>
    /\ UNCHANGED threads

NextParse == CallChecksum \/ CallSplit

SpecParse == InitParse /\ [][NextParse]_vars

(***************************************************************************)
(* The read loop of run() / main(): one ser.read and the framing of it     *)
(***************************************************************************)
InitFramer ==
    /\ pin = <<>> /\ pout = None
    /\ frontend \in {"display", "tester"}
    /\ fir = HeadingFIR(15)
    /\ InitRest

\* chunk = ser.read(4096) returning the non-empty chunk, buf.extend(chunk),
\* the framing loop, and handle_sentence (and logq.put in the display
\* worker) for every line it yields.  The periodic publication that ends
\* the iteration reads this state and changes none of it.
Read(chunk) ==
    LET r == FrameLoop(buf \o chunk, <<>>)
        w == HandleAll(frontend, Worker, r.lines)
    IN  /\ Len(stream) + Len(chunk) <= MaxStream
        /\ stream' = stream \o chunk
        /\ buf' = r.buf
        /\ handed' = handed \o r.lines
        /\ logq' = IF frontend = "display" THEN logq \o r.lines ELSE logq
        /\ nav' = w.nav
        /\ fir' = w.fir
        /\ filtered_heading' = w.filtered_heading
        /\ ncalls' = ncalls + Len(r.lines)
        /\ last' = [op |-> "read", chunk |-> chunk, pre |-> buf]
        /\ UNCHANGED <<pin, pout, frontend, heading_offset_deg, added, resized>>
        /\ UNCHANGED threads

NextFramer == \E chunk \in StringsOver(Bytes, MaxStream - Len(stream)) : Read(chunk)

SpecFramer == InitFramer /\ [][NextFramer]_vars

(***************************************************************************)
(* handle_sentence on the lines the framer hands over                      *)
(***************************************************************************)
InitAgg ==
    /\ pin = <<>> /\ pout = None
    /\ frontend \in {"display", "tester"}
    /\ fir = HeadingFIR(2)
    /\ InitRest

HandleSentence(line) ==
    LET w == Handle(frontend, Worker, line)
    IN  /\ ncalls < MaxHandled
        /\ nav' = w.nav
        /\ fir' = w.fir
        /\ filtered_heading' = w.filtered_heading
        /\ ncalls' = ncalls + 1
        /\ last' = [op |-> "handle_sentence", line |-> line, pre |-> Worker]
        /\ UNCHANGED <<pin, pout, stream, buf, handed, logq, frontend,
                       heading_offset_deg, added, resized>>
        /\ UNCHANGED threads

NextAgg == \E line \in Lines : HandleSentence(line)

SpecAgg == InitAgg /\ [][NextAgg]_vars

(***************************************************************************)
(* The HeadingFIR object under its three mutators                          *)
(***************************************************************************)
InitFIR ==
    /\ pin = <<>> /\ pout = None
    /\ frontend = "display"
    /\ \E w \in -1..MaxWindow :
          /\ fir = HeadingFIR(w)
          /\ last = [op |-> "init", n |-> w]
    /\ stream = <<>> /\ buf = <<>> /\ handed = <<>> /\ logq = <<>>
    /\ nav = NMEAState
    /\ filtered_heading = None
    /\ heading_offset_deg = 0
    /\ added = <<>> /\ resized = FALSE /\ ncalls = 0
    /\ NoThreads

FirAdd(deg) ==
    /\ ncalls < MaxOps
    /\ fir' = add(fir, deg)
    /\ added' = Append(added, deg)
    /\ ncalls' = ncalls + 1
    /\ last' = [op |-> "add", deg |-> deg, pre |-> fir, prev |-> Brief(last)]
    /\ UNCHANGED <<pin, pout, stream, buf, handed, logq, frontend, nav,
                   filtered_heading, heading_offset_deg, resized>>
    /\ UNCHANGED threads

FirSetWindow(n) ==
    /\ ncalls < MaxOps
    /\ fir' = set_window(fir, n)
    /\ resized' = TRUE
    /\ ncalls' = ncalls + 1
    /\ last' = [op |-> "set_window", n |-> n, pre |-> fir, prev |-> Brief(last)]
    /\ UNCHANGED <<pin, pout, stream, buf, handed, logq, frontend, nav,
                   filtered_heading, heading_offset_deg, added>>
    /\ UNCHANGED threads

FirReset ==
    /\ ncalls < MaxOps
    /\ fir' = reset(fir)
    /\ added' = <<>>
    /\ resized' = TRUE
    /\ ncalls' = ncalls + 1
    /\ last' = [op |-> "reset", pre |-> fir, prev |-> Brief(last)]
    /\ UNCHANGED <<pin, pout, stream, buf, handed, logq, frontend, nav,
                   filtered_heading, heading_offset_deg>>
    /\ UNCHANGED threads

NextFIR ==
    \/ \E deg \in AddAngles : FirAdd(deg)
    \/ \E n \in -1..MaxWindow : FirSetWindow(n)
    \/ FirReset

SpecFIR == InitFIR /\ [][NextFIR]_vars

(***************************************************************************)
(* SerialReader.run as a thread, with the control thread's calls on it.    *)
(* A sentence is handled in one step here; the interleaving of the control *)
(* thread inside the filter's methods is followed in SpecRace.             *)
(***************************************************************************)
MaxRunLines == 2    \* lines the worker handles in one run
MaxPush == 1        \* snapshots the worker publishes in one run

\* the texts run() puts on the log queue, without port and baud rate
OpenedMsg == <<"O", "p", "e", "n", "e", "d">>
OpenErrorMsg == <<"E", "R", "R", "O", "R", " ", "o", "p", "e", "n", "i", "n", "g">>
ClosedMsg == <<"S", "e", "r", "i", "a", "l", " ", "c", "l", "o", "s", "e", "d", ".">>

\* what ser.read returns when bytes arrive: one terminated sentence
RunChunks ==
    {Good(Sentences[14]) \o <<"\r", "\n">>,     \* $GPHDT,359.0,T
     Good(Sentences[16]) \o <<"\n">>,           \* $HEHDT,-10,T
     Good(Sentences[18]) \o <<"\r", "\n">>}     \* $GPHDT,x,T

\* window sizes and offsets the control thread asks for
RunWindows == {1, 2}
RunOffsets == {900}

\* the dict d that run() puts on the output queue
Snapshot(w) ==
    [d                |-> as_dict(w.nav),
     filtered_heading |-> w.filtered_heading,
     offset_deg       |-> w.heading_offset_deg,
     sats_used        |-> w.nav.sats_used,
     sats_in_view     |-> w.nav.sats_in_view,
     hdop             |-> w.nav.hdop]

\* _connect has cleared the stop event, built the reader and started it
InitRun ==
    /\ pin = <<>> /\ pout = None
    /\ frontend = "display"
    /\ stream = <<>> /\ buf = <<>> /\ handed = <<>> /\ logq = <<>>
    /\ nav = NMEAState
    /\ fir = HeadingFIR(2)
    /\ filtered_heading = None
    /\ heading_offset_deg = 0
    /\ added = <<>> /\ resized = FALSE /\ ncalls = 0
    /\ last = Idle
    /\ pc = "start"
    /\ stop_event = FALSE
    /\ ser = "unopened"
    /\ q = <<>>
    /\ gui = [at |-> "idle", stop_q |-> 0, seen |-> <<>>]
    /\ tmp = [last_push |-> 0, late |-> 0, lines |-> <<>>]

\* serial.Serial(...) succeeds
Open ==
    /\ pc = "start"
    /\ ser' = "open"
    /\ logq' = Append(logq, OpenedMsg)
    /\ pc' = "loop"
    /\ UNCHANGED last
    /\ UNCHANGED <<pin, pout, stream, buf, handed, frontend, nav, fir,
                   filtered_heading, heading_offset_deg, added, resized,
                   ncalls, stop_event, q, gui, tmp>>

\* serial.Serial(...) raises: the except branch logs and returns
OpenFail ==
    /\ pc = "start"
    /\ logq' = Append(logq, OpenErrorMsg)
    /\ pc' = "done"
    /\ UNCHANGED last
    /\ UNCHANGED <<pin, pout, stream, buf, handed, frontend, nav, fir,
                   filtered_heading, heading_offset_deg, added, resized,
                   ncalls, stop_event, ser, q, gui, tmp>>

\* the loop head as "while True": the stop event is never looked at
CheckStop_NoExit ==
    /\ pc = "loop"
    /\ pc' = "read"
    /\ UNCHANGED <<pin, pout, stream, buf, handed, logq, frontend, nav, fir,
                   filtered_heading, heading_offset_deg, added, resized,
                   ncalls, last, stop_event, ser, q, gui, tmp>>

\* while not self.stop_event.is_set()
CheckStop ==
    /\ pc = "loop"
    /\ pc' = IF stop_event THEN "close" ELSE "read"
    /\ UNCHANGED <<pin, pout, stream, buf, handed, logq, frontend, nav, fir,
                   filtered_heading, heading_offset_deg, added, resized,
                   ncalls, last, stop_event, ser, q, gui, tmp>>

\* chunk = self.ser.read(4096) returns, empty after the timeout of one
\* second; a non-empty chunk is framed and every line handled and logged.
\* tmp.late counts the reads that returned with the stop event set, up to 2.
RunRead(chunk) ==
    LET r == FrameLoop(buf \o chunk, <<>>)
        w == HandleAll("display", Worker, r.lines)
    IN  /\ pc = "read"
        /\ Len(handed) + Len(r.lines) <= MaxRunLines
        /\ stream' = stream \o chunk
        /\ buf' = r.buf
        /\ handed' = handed \o r.lines
        /\ logq' = logq \o r.lines
        /\ nav' = w.nav
        /\ fir' = w.fir
        /\ filtered_heading' = w.filtered_heading
        /\ ncalls' = ncalls + Len(r.lines)
        /\ last' = IF chunk = <<>> THEN last
                   ELSE [op |-> "read", lines |-> r.lines, pre |-> Worker, post |-> w]
        /\ tmp' = [tmp EXCEPT !.late = IF stop_event /\ tmp.late < 2 THEN tmp.late + 1 ELSE tmp.late]
        /\ pc' = "push"
        /\ UNCHANGED <<pin, pout, frontend, heading_offset_deg, added, resized,
                       stop_event, ser, q, gui>>

\* self.ser.read raises: the exception leaves the loop through "finally"
ReadFail ==
    /\ pc = "read"
    /\ pc' = "close"
    /\ last' = [op |-> "readfail", nav |-> nav, logged |-> Len(logq)]
    /\ UNCHANGED <<pin, pout, stream, buf, handed, logq, frontend, nav, fir,
                   filtered_heading, heading_offset_deg, added, resized,
                   ncalls, stop_event, ser, q, gui, tmp>>

\* now - last_push >= 0.2, always so while last_push is still 0
PushSnapshot ==
    /\ pc = "push"
    /\ Len(q) < MaxPush
    /\ q' = Append(q, Snapshot(Worker))
    /\ tmp' = [tmp EXCEPT !.last_push = 1]
    /\ pc' = "loop"
    /\ UNCHANGED last
    /\ UNCHANGED <<pin, pout, stream, buf, handed, logq, frontend, nav, fir,
                   filtered_heading, heading_offset_deg, added, resized,
                   ncalls, stop_event, ser, gui>>

\* less than 0.2 s since the last snapshot
SkipPush ==
    /\ pc = "push"
    /\ tmp.last_push # 0
    /\ pc' = "loop"
    /\ UNCHANGED <<pin, pout, stream, buf, handed, logq, frontend, nav, fir,
                   filtered_heading, heading_offset_deg, added, resized,
                   ncalls, last, stop_event, ser, q, gui, tmp>>

\* a finally block that also publishes a last snapshot
Close_PushFinal ==
    /\ pc = "close"
    /\ ser' = IF ser = "open" THEN "closed" ELSE ser
    /\ logq' = IF ser = "open" THEN Append(logq, ClosedMsg) ELSE logq
    /\ q' = Append(q, Snapshot(Worker))
    /\ pc' = "done"
    /\ UNCHANGED last
    /\ UNCHANGED <<pin, pout, stream, buf, handed, frontend, nav, fir,
                   filtered_heading, heading_offset_deg, added, resized,
                   ncalls, stop_event, gui, tmp>>

\* the finally block: close the port if it is open, and say so
Close ==
    /\ pc = "close"
    /\ ser' = IF ser = "open" THEN "closed" ELSE ser
    /\ logq' = IF ser = "open" THEN Append(logq, ClosedMsg) ELSE logq
    /\ pc' = "done"
    /\ UNCHANGED last
    /\ UNCHANGED <<pin, pout, stream, buf, handed, frontend, nav, fir,
                   filtered_heading, heading_offset_deg, added, resized,
                   ncalls, stop_event, q, gui, tmp>>

\* self.reader and self.reader.is_alive()
ReaderAlive == pc \notin {"unstarted", "done"}

\* _apply_window -> SerialReader.set_fir_window(n)
SetFirWindow(n) ==
    /\ ReaderAlive
    /\ fir' = set_window(fir, n)
    /\ UNCHANGED <<pin, pout, stream, buf, handed, logq, frontend, nav,
                   filtered_heading, heading_offset_deg, added, resized,
                   ncalls, last, pc, stop_event, ser, q, gui, tmp>>

\* _apply_offset -> SerialReader.set_heading_offset(deg)
SetHeadingOffset(deg) ==
    /\ ReaderAlive
    /\ heading_offset_deg' = deg
    /\ UNCHANGED last
    /\ UNCHANGED <<pin, pout, stream, buf, handed, logq, frontend, nav, fir,
                   filtered_heading, added, resized, ncalls, pc, stop_event,
                   ser, q, gui, tmp>>

\* _toggle_connection with a live reader -> _disconnect: stop_event.set();
\* gui.stop_q remembers how many snapshots had been published by then
Disconnect ==
    /\ ReaderAlive
    /\ ~stop_event
    /\ stop_event' = TRUE
    /\ gui' = [gui EXCEPT !.stop_q = Len(q)]
    /\ UNCHANGED <<pin, pout, stream, buf, handed, logq, frontend, nav, fir,
                   filtered_heading, heading_offset_deg, added, resized,
                   ncalls, last, pc, ser, q, tmp>>

\* a step of the worker thread
WorkerStep ==
    \/ Open
    \/ OpenFail
    \/ CheckStop
    \/ \E chunk \in RunChunks \cup {<<>>} : RunRead(chunk)
    \/ ReadFail
    \/ PushSnapshot
    \/ SkipPush
    \/ Close

\* a call made by the control thread
ControlStep ==
    \/ \E n \in RunWindows : SetFirWindow(n)
    \/ \E deg \in RunOffsets : SetHeadingOffset(deg)
    \/ Disconnect

NextRun == WorkerStep \/ ControlStep

SpecRun == InitRun /\ [][NextRun]_vars

\* the worker thread is scheduled again and again, and a read returns
\* within its timeout
SpecRunLive == SpecRun /\ WF_vars(WorkerStep)

(***************************************************************************)
(* The worker line by line, with the consumer of the log queue.  A read    *)
(* frames its chunk into tmp.lines; each line is then handled and put on   *)
(* the log queue in two steps, and _poll_queues may run between any two.   *)
(***************************************************************************)
\* LineStep with logq.put(line) before handle_sentence(line)
LineStep_PutFirst ==
    \/ \E chunk \in RunChunks \cup
                    {<<>>, Good(Sentences[14]) \o <<"\r", "\n">> \o
                           Good(Sentences[16]) \o <<"\n">>} :
          LET r == FrameLoop(buf \o chunk, <<>>)
          IN  /\ pc = "read"
              /\ Len(handed) + Len(r.lines) <= MaxRunLines
              /\ stream' = stream \o chunk
              /\ buf' = r.buf
              /\ tmp' = [tmp EXCEPT !.lines = r.lines,
                                    !.late = IF stop_event /\ tmp.late < 2 THEN tmp.late + 1 ELSE tmp.late]
              /\ pc' = IF r.lines = <<>> THEN "push" ELSE "handle"
              /\ UNCHANGED <<pin, pout, handed, logq, frontend, nav, fir,
                             filtered_heading, heading_offset_deg, added, resized,
                             ncalls, last, stop_event, ser, q, gui>>
    \/ /\ pc = "handle"
       /\ logq' = Append(logq, Head(tmp.lines))
       /\ pc' = "put"
       /\ UNCHANGED <<pin, pout, stream, buf, handed, frontend, nav, fir,
                      filtered_heading, heading_offset_deg, added, resized,
                      ncalls, last, stop_event, ser, q, gui, tmp>>
    \/ LET w == Handle("display", Worker, Head(tmp.lines))
       IN  /\ pc = "put"
           /\ nav' = w.nav
           /\ fir' = w.fir
           /\ filtered_heading' = w.filtered_heading
           /\ handed' = Append(handed, Head(tmp.lines))
           /\ ncalls' = ncalls + 1
           /\ tmp' = [tmp EXCEPT !.lines = Tail(tmp.lines)]
           /\ pc' = IF Tail(tmp.lines) = <<>> THEN "push" ELSE "handle"
           /\ UNCHANGED <<pin, pout, stream, buf, logq, frontend,
                          heading_offset_deg, added, resized, last, stop_event,
                          ser, q, gui>>

\* one step of an iteration of the read loop: the read and the framing of
\* its chunk; self.handle_sentence(line); self.logq.put(line)
LineStep ==
    \/ \E chunk \in RunChunks \cup
                    {<<>>, Good(Sentences[14]) \o <<"\r", "\n">> \o
                           Good(Sentences[16]) \o <<"\n">>} :
          LET r == FrameLoop(buf \o chunk, <<>>)
          IN  /\ pc = "read"
              /\ Len(handed) + Len(r.lines) <= MaxRunLines
              /\ stream' = stream \o chunk
              /\ buf' = r.buf
              /\ tmp' = [tmp EXCEPT !.lines = r.lines,
                                    !.late = IF stop_event /\ tmp.late < 2 THEN tmp.late + 1 ELSE tmp.late]
              /\ pc' = IF r.lines = <<>> THEN "push" ELSE "handle"
              /\ UNCHANGED <<pin, pout, handed, logq, frontend, nav, fir,
                             filtered_heading, heading_offset_deg, added, resized,
                             ncalls, last, stop_event, ser, q, gui>>
    \/ LET w == Handle("display", Worker, Head(tmp.lines))
       IN  /\ pc = "handle"
           /\ nav' = w.nav
           /\ fir' = w.fir
           /\ filtered_heading' = w.filtered_heading
           /\ handed' = Append(handed, Head(tmp.lines))
           /\ ncalls' = ncalls + 1
           /\ pc' = "put"
           /\ UNCHANGED <<pin, pout, stream, buf, logq, frontend,
                          heading_offset_deg, added, resized, last, stop_event,
                          ser, q, gui, tmp>>
    \/ /\ pc = "put"
       /\ logq' = Append(logq, Head(tmp.lines))
       /\ tmp' = [tmp EXCEPT !.lines = Tail(tmp.lines)]
       /\ pc' = IF Tail(tmp.lines) = <<>> THEN "push" ELSE "handle"
       /\ UNCHANGED <<pin, pout, stream, buf, handed, frontend, nav, fir,
                      filtered_heading, heading_offset_deg, added, resized,
                      ncalls, last, stop_event, ser, q, gui>>

\* _poll_queues: log_queue.get_nowait() until queue.Empty, each item
\* appended to the log text (gui.seen); it takes the k items that have been
\* put by the time it finds the queue empty
PollLog(k) ==
    /\ gui' = [gui EXCEPT !.seen = gui.seen \o SubSeq(logq, 1, k)]
    /\ logq' = SubSeq(logq, k + 1, Len(logq))
    /\ UNCHANGED <<pin, pout, stream, buf, handed, frontend, nav, fir,
                   filtered_heading, heading_offset_deg, added, resized,
                   ncalls, last, pc, stop_event, ser, q, tmp>>

NextLog ==
    \/ Open
    \/ OpenFail
    \/ CheckStop
    \/ LineStep
    \/ ReadFail
    \/ PushSnapshot
    \/ SkipPush
    \/ Close
    \/ Disconnect
    \/ \E k \in 1..Len(logq) : PollLog(k)

SpecLog == InitRun /\ [][NextLog]_vars

(***************************************************************************)
(* The HDT branch of handle_sentence in the worker thread against          *)
(* set_fir_window and set_heading_offset in the control thread, with no    *)
(* lock between them.  The interpreter can switch threads at the calls     *)
(* inside a statement, so "self.sum_sin += math.sin(rad)" is a load, a     *)
(* call and a store: the load and the store are separate steps here.  The  *)
(* list operations append and pop, and one test of the window condition,   *)
(* are single steps.                                                       *)
(***************************************************************************)
MaxRaceLines == 2   \* HDT sentences the worker handles
MaxRaceCalls == 1   \* calls the control thread makes

\* what neither thread touches here
RaceStatic == <<pin, pout, stream, buf, handed, logq, frontend, added, resized,
                stop_event, ser, q>>

\* a running worker between two lines, the control thread idle
InitRace ==
    /\ pin = <<>> /\ pout = None
    /\ frontend = "display"
    /\ stream = <<>> /\ buf = <<>> /\ handed = <<>> /\ logq = <<>>
    /\ nav = NMEAState
    /\ fir = HeadingFIR(2)
    /\ filtered_heading = None
    /\ heading_offset_deg = 0
    /\ added = <<>> /\ resized = FALSE /\ ncalls = 0
    /\ last = Idle
    /\ pc = "hdt"
    /\ stop_event = FALSE
    /\ ser = "open"
    /\ q = <<>>
    /\ gui = [at |-> "idle", calls |-> 0, t |-> 0, old |-> 0]
    /\ tmp = [last_push |-> 1, rad |-> 0, t |-> 0, old |-> 0, filt |-> None]

\* hdg decoded: self.state.heading_T = norm360(hdg), then add() computes rad
BeginHDT(hdg) ==
    /\ pc = "hdt"
    /\ ncalls < MaxRaceLines
    /\ nav' = [nav EXCEPT !.heading_T = Some(norm360(hdg))]
    /\ tmp' = [tmp EXCEPT !.rad = norm360(norm360(hdg))]
    /\ pc' = "append"
    /\ UNCHANGED <<fir, filtered_heading, heading_offset_deg, ncalls, last, gui>>
    /\ UNCHANGED RaceStatic

\* self.angles.append(rad)
AddAppend ==
    /\ pc = "append"
    /\ fir' = [fir EXCEPT !.angles = Append(fir.angles, tmp.rad)]
    /\ pc' = "sin_ld"
    /\ UNCHANGED <<nav, filtered_heading, heading_offset_deg, ncalls, last, gui, tmp>>
    /\ UNCHANGED RaceStatic

\* the four updates of the running sums in add(): each loads, then stores
AddSum ==
    /\ \/ /\ pc \in {"sin_ld", "cos_ld", "psin_ld", "pcos_ld"}
          /\ tmp' = [tmp EXCEPT !.t = IF pc \in {"sin_ld", "psin_ld"}
                                      THEN fir.sum_sin ELSE fir.sum_cos]
          /\ pc' = (CASE pc = "sin_ld" -> "sin_st" [] pc = "cos_ld" -> "cos_st"
                      [] pc = "psin_ld" -> "psin_st" [] pc = "pcos_ld" -> "pcos_st")
          /\ UNCHANGED fir
       \/ /\ pc \in {"sin_st", "cos_st", "psin_st", "pcos_st"}
          /\ fir' = (CASE pc = "sin_st" -> [fir EXCEPT !.sum_sin = tmp.t + sin(tmp.rad)]
                       [] pc = "cos_st" -> [fir EXCEPT !.sum_cos = tmp.t + cos(tmp.rad)]
                       [] pc = "psin_st" -> [fir EXCEPT !.sum_sin = tmp.t - sin(tmp.old)]
                       [] pc = "pcos_st" -> [fir EXCEPT !.sum_cos = tmp.t - cos(tmp.old)])
          /\ pc' = (CASE pc = "sin_st" -> "cos_ld" [] pc = "cos_st" -> "test"
                      [] pc = "psin_st" -> "pcos_ld" [] pc = "pcos_st" -> "v_test")
          /\ UNCHANGED tmp
    /\ UNCHANGED <<nav, filtered_heading, heading_offset_deg, ncalls, last, gui>>
    /\ UNCHANGED RaceStatic

\* if len(self.angles) > self.window: old = self.angles.pop(0); pop from
\* an empty list raises IndexError, which ends the worker
AddEvict ==
    /\ \/ /\ pc = "test"
          /\ pc' = IF Len(fir.angles) > fir.window THEN "pop" ELSE "v_test"
          /\ UNCHANGED <<fir, tmp>>
       \/ /\ pc = "pop"
          /\ IF fir.angles = <<>>
             THEN pc' = "raised" /\ UNCHANGED <<fir, tmp>>
             ELSE /\ fir' = [fir EXCEPT !.angles = Tail(fir.angles)]
                  /\ tmp' = [tmp EXCEPT !.old = Head(fir.angles)]
                  /\ pc' = "psin_ld"
    /\ UNCHANGED <<nav, filtered_heading, heading_offset_deg, ncalls, last, gui>>
    /\ UNCHANGED RaceStatic

\* filt = self.heading_fir.value(): the emptiness test, then the mean
ValueStep ==
    /\ \/ /\ pc = "v_test"
          /\ IF fir.angles = <<>>
             THEN tmp' = [tmp EXCEPT !.filt = None] /\ pc' = "store"
             ELSE pc' = "v_calc" /\ UNCHANGED tmp
       \/ /\ pc = "v_calc"
          /\ tmp' = [tmp EXCEPT !.filt = Some(norm360(atan2deg(fir.sum_sin, fir.sum_cos)))]
          /\ pc' = "store"
    /\ UNCHANGED <<nav, fir, filtered_heading, heading_offset_deg, ncalls, last, gui>>
    /\ UNCHANGED RaceStatic

\* self.filtered_heading = None if filt is None else norm360(filt + offset)
StoreFiltered ==
    /\ pc = "store"
    /\ filtered_heading' = IF tmp.filt = None THEN None
                           ELSE Some(norm360(tmp.filt[1] + heading_offset_deg))
    /\ ncalls' = ncalls + 1
    /\ last' = [op |-> "hdt", rad |-> tmp.rad]
    /\ pc' = "hdt"
    /\ UNCHANGED <<nav, fir, heading_offset_deg, gui, tmp>>
    /\ UNCHANGED RaceStatic

\* set_fir_window(n) -> set_window: n = max(1, int(n)); self.window = n
GuiSetWindow(n) ==
    /\ gui.at = "idle"
    /\ gui.calls < MaxRaceCalls
    /\ fir' = [fir EXCEPT !.window = Max(1, n)]
    /\ gui' = [gui EXCEPT !.at = "g_test", !.calls = gui.calls + 1]
    /\ UNCHANGED <<nav, filtered_heading, heading_offset_deg, ncalls, last, pc, tmp>>
    /\ UNCHANGED RaceStatic

\* while len(self.angles) > self.window: old = self.angles.pop(0); an
\* IndexError ends the call
GuiEvict ==
    /\ \/ /\ gui.at = "g_test"
          /\ gui' = [gui EXCEPT !.at = IF Len(fir.angles) > fir.window
                                       THEN "g_pop" ELSE "idle"]
          /\ UNCHANGED fir
       \/ /\ gui.at = "g_pop"
          /\ IF fir.angles = <<>>
             THEN gui' = [gui EXCEPT !.at = "idle"] /\ UNCHANGED fir
             ELSE /\ fir' = [fir EXCEPT !.angles = Tail(fir.angles)]
                  /\ gui' = [gui EXCEPT !.at = "g_sin_ld", !.old = Head(fir.angles)]
    /\ UNCHANGED <<nav, filtered_heading, heading_offset_deg, ncalls, last, pc, tmp>>
    /\ UNCHANGED RaceStatic

\* the two updates of the running sums in set_window's loop
GuiSum ==
    /\ \/ /\ gui.at \in {"g_sin_ld", "g_cos_ld"}
          /\ gui' = [gui EXCEPT !.t = IF gui.at = "g_sin_ld" THEN fir.sum_sin
                                      ELSE fir.sum_cos,
                                !.at = IF gui.at = "g_sin_ld" THEN "g_sin_st"
                                       ELSE "g_cos_st"]
          /\ UNCHANGED fir
       \/ /\ gui.at \in {"g_sin_st", "g_cos_st"}
          /\ fir' = IF gui.at = "g_sin_st"
                    THEN [fir EXCEPT !.sum_sin = gui.t - sin(gui.old)]
                    ELSE [fir EXCEPT !.sum_cos = gui.t - cos(gui.old)]
          /\ gui' = [gui EXCEPT !.at = IF gui.at = "g_sin_st" THEN "g_cos_ld"
                                       ELSE "g_test"]
    /\ UNCHANGED <<nav, filtered_heading, heading_offset_deg, ncalls, last, pc, tmp>>
    /\ UNCHANGED RaceStatic

\* set_heading_offset(deg): one store
GuiSetOffset(deg) ==
    /\ gui.at = "idle"
    /\ gui.calls < MaxRaceCalls
    /\ heading_offset_deg' = deg
    /\ gui' = [gui EXCEPT !.calls = gui.calls + 1]
    /\ UNCHANGED <<nav, fir, filtered_heading, ncalls, last, pc, tmp>>
    /\ UNCHANGED RaceStatic

NextRace ==
    \/ \E hdg \in {10, 900} : BeginHDT(hdg)
    \/ AddAppend
    \/ AddSum
    \/ AddEvict
    \/ ValueStep
    \/ StoreFiltered
    \/ \E n \in {1, 2} : GuiSetWindow(n)
    \/ GuiEvict
    \/ GuiSum
    \/ \E deg \in {900} : GuiSetOffset(deg)

SpecRace == InitRace /\ [][NextRace]_vars

(***************************************************************************)
(* The Connect/Disconnect button of NMEAGui and the life of the workers it *)
(* starts.  All workers are built on the one stop event of the GUI.  Here  *)
(* pc and ser hold one entry per worker started, in the order of starting, *)
(* and only the control flow of run() is followed.                         *)
(***************************************************************************)
MaxWorkers == 2     \* workers started in one behaviour
MaxClicks == 4      \* clicks on the button in one behaviour

\* what the button and the workers' control flow do not touch
ConnStatic == <<pin, pout, stream, buf, handed, logq, frontend, nav, fir,
                filtered_heading, heading_offset_deg, added, resized, ncalls,
                last, q, tmp>>

\* NMEAGui.__init__: a fresh Event, self.reader = None, no worker yet;
\* gui.reader is 0 for None, gui.timers counts pending after(300, ...) calls
InitConn ==
    /\ pin = <<>> /\ pout = None
    /\ frontend = "display"
    /\ stream = <<>> /\ buf = <<>> /\ handed = <<>> /\ logq = <<>>
    /\ nav = NMEAState
    /\ fir = HeadingFIR(15)
    /\ filtered_heading = None
    /\ heading_offset_deg = 0
    /\ added = <<>> /\ resized = FALSE /\ ncalls = 0
    /\ last = Idle
    /\ pc = <<>>
    /\ stop_event = FALSE
    /\ ser = <<>>
    /\ q = <<>>
    /\ gui = [at |-> "idle", reader |-> 0, timers |-> 0, clicks |-> 0]
    /\ tmp = [last_push |-> 0]

\* t.is_alive() of the i-th worker: started, and run() has not returned
IsAlive(i) == pc[i] # "done"

\* _toggle_connection: _disconnect if self.reader is a live thread, which
\* sets the event and schedules _finish_disconnect; else _connect, which
\* clears the event and starts a new worker on it
ToggleConnection ==
    /\ gui.clicks < MaxClicks
    /\ IF gui.reader # 0 /\ IsAlive(gui.reader)
       THEN /\ stop_event' = TRUE
            /\ gui' = [gui EXCEPT !.timers = gui.timers + 1, !.clicks = gui.clicks + 1]
            /\ UNCHANGED <<pc, ser>>
       ELSE /\ Len(pc) < MaxWorkers
            /\ stop_event' = FALSE
            /\ pc' = Append(pc, "start")
            /\ ser' = Append(ser, "unopened")
            /\ gui' = [gui EXCEPT !.reader = Len(pc) + 1, !.clicks = gui.clicks + 1]
    /\ UNCHANGED ConnStatic

\* _finish_disconnect, 300 ms after _disconnect: self.reader = None
FinishDisconnect ==
    /\ gui.timers > 0
    /\ gui' = [gui EXCEPT !.reader = 0, !.timers = gui.timers - 1]
    /\ UNCHANGED <<pc, stop_event, ser>>
    /\ UNCHANGED ConnStatic

\* the control flow of run() in the i-th worker: the open succeeds or
\* raises; the loop head tests the event; a read returns, after at most
\* its timeout of 1 s, and the iteration ends; the finally block closes
WorkerRun(i) ==
    /\ \/ /\ pc[i] = "start"
          /\ pc' = [pc EXCEPT ![i] = "loop"]
          /\ ser' = [ser EXCEPT ![i] = "open"]
       \/ /\ pc[i] = "start"
          /\ pc' = [pc EXCEPT ![i] = "done"]
          /\ UNCHANGED ser
       \/ /\ pc[i] = "loop"
          /\ pc' = [pc EXCEPT ![i] = IF stop_event THEN "close" ELSE "read"]
          /\ UNCHANGED ser
       \/ /\ pc[i] = "read"
          /\ pc' = [pc EXCEPT ![i] = "loop"]
          /\ UNCHANGED ser
       \/ /\ pc[i] = "close"
          /\ pc' = [pc EXCEPT ![i] = "done"]
          /\ ser' = [ser EXCEPT ![i] = "closed"]
    /\ UNCHANGED <<stop_event, gui>>
    /\ UNCHANGED ConnStatic

NextConn ==
    \/ ToggleConnection
    \/ FinishDisconnect
    \/ \E i \in DOMAIN pc : WorkerRun(i)

SpecConn == InitConn /\ [][NextConn]_vars

(***************************************************************************)
(* Properties                                                              *)
(***************************************************************************)
Handled == last.op = "handle_sentence"

\* C1: for every byte stream and every cutting of it into non-empty chunks,
\* the lines handed to handle_sentence so far are exactly the lines the
\* framing loop yields when the bytes received so far arrive as one chunk
C1_ChunkInvariance == handed = FrameLoop(stream, <<>>).lines

\* a CR/LF pair was cut by a chunk boundary, and lines arrived on both sides
C1_Witness ==
    /\ last.op = "read"
    /\ Len(stream) > Len(last.chunk)
    /\ last.chunk[1] = "\n"
    /\ stream[Len(stream) - Len(last.chunk)] = "\r"
    /\ Len(handed) >= 2
    /\ Len(FrameLoop(last.chunk, <<>>).lines) >= 1

RECURSIVE BitXor(_, _)
BitXor(a, b) ==
    IF a = 0 THEN b
    ELSE IF b = 0 THEN a
    ELSE ((a + b) % 2) + 2 * BitXor(a \div 2, b \div 2)

RECURSIVE ManualXor(_, _, _)
\* XOR of the character codes of s[lo..hi], halving the span
ManualXor(s, lo, hi) ==
    IF lo > hi THEN 0
    ELSE IF lo = hi THEN ord[s[lo]]
    ELSE LET mid == (lo + hi) \div 2
             l   == ManualXor(s, lo, mid)
             r   == ManualXor(s, mid + 1, hi)
         IN  BitXor(l, r)

\* the two characters after the first "*" of line, as written
AfterStar(line) == SubSeq(line, find(line, "*") + 2, Min(find(line, "*") + 3, Len(line)))

\* the two uppercase hex digits of the XOR of the characters strictly
\* between the leading "$" and the first "*"; none if it needs more digits
TwoHex(line) ==
    LET x == ManualXor(line, 2, find(line, "*"))
    IN  IF x < 256 THEN <<HexDigits[(x \div 16) + 1], HexDigits[(x % 16) + 1]>>
        ELSE <<>>

ChecksumCalled == pout # None /\ pout[1].op = "nmea_checksum_ok"

CommaAt(text) == {i \in 1..Len(text) : text[i] = ","}
NthComma(text, k) ==
    CHOOSE i \in CommaAt(text) : Cardinality({j \in CommaAt(text) : j < i}) = k - 1

\* the body of line: after the "$" up to the first "*", or to the end
BodyOf(line) ==
    IF Contains(line, "*") THEN SubSeq(line, 2, find(line, "*"))
    ELSE SubSeq(line, 2, Len(line))

\* token k (0 is the first) of the comma-delimited text
Token(text, k) ==
    LET n  == Cardinality(CommaAt(text))
        lo == IF k = 0 THEN 1 ELSE NthComma(text, k) + 1
        hi == IF k = n THEN Len(text) ELSE NthComma(text, k + 1) - 1
    IN  SubSeq(text, lo, hi)

SplitCalled == pout # None /\ pout[1].op = "split_fields"

\* C3: no talker, no type and no fields when the line does not start with
\* "$" or the first token of the body has fewer than 5 characters; else
\* talker is the first 2 characters of that token, type the rest of it and
\* the fields are all following tokens in order, whatever the checksum is
C3_SplitFields ==
    SplitCalled =>
        LET body == BodyOf(pin)
            n    == Cardinality(CommaAt(body))
            r    == pout[1].r
        IN  IF ~startswith(pin, "$") \/ Len(Token(body, 0)) < 5
            THEN r.talker = None /\ r.typ = None /\ r.f = <<>>
            ELSE /\ r.talker = Some(SubSeq(Token(body, 0), 1, 2))
                 /\ r.typ = Some(SubSeq(Token(body, 0), 3, Len(Token(body, 0))))
                 /\ Len(r.f) = n
                 /\ \A k \in 1..n : r.f[k] = Token(body, k)

\* fields were extracted from a sentence whose checksum is wrong
C3_Witness ==
    /\ SplitCalled
    /\ pin = Bad(Sentences[1])
    /\ ~nmea_checksum_ok(pin)
    /\ pout[1].r.talker = Some(<<"G", "P">>)
    /\ pout[1].r.typ = Some(GGA)
    /\ Len(pout[1].r.f) = 14
    /\ pout[1].r.f[9] = <<"5", "4", "5", ".", "4">>

LatestKnown == {"utc", "date", "sats_used", "sats_in_view", "pdop", "hdop",
                "vdop", "alt_m", "heading_T", "last_talker"}

\* C4: in both front ends, a field of the latest-known set that holds a
\* value before a sentence is handled still holds a value afterwards
C4_NeverUnset ==
    Handled => \A k \in LatestKnown : last.pre.nav[k] # None => nav[k] # None

\* C5: in both front ends every call of handle_sentence adds exactly 1 to
\* ok_count when the checksum is valid and exactly 1 to bad_count when it
\* is not, leaves the other alone, and ok_count + bad_count is the number
\* of lines handled
C5_OneCounter ==
    /\ nav.ok_count + nav.bad_count = ncalls
    /\ Handled =>
          IF nmea_checksum_ok(last.line)
          THEN /\ nav.ok_count = last.pre.nav.ok_count + 1
               /\ nav.bad_count = last.pre.nav.bad_count
          ELSE /\ nav.ok_count = last.pre.nav.ok_count
               /\ nav.bad_count = last.pre.nav.bad_count + 1

\* the navigation fields of a worker state: everything but the counters
NavFields(w) ==
    [w EXCEPT !.nav = [w.nav EXCEPT !.ok_count = 0, !.bad_count = 0]]

\* C6: in the display worker, a sentence with a wrong checksum leaves every
\* navigation field, the filter and the filtered heading exactly as the same
\* body with the right checksum (or with none) would, from the same prior
\* state; only the counter that was incremented differs
C6_BadChecksumStillDecoded ==
    (Handled /\ frontend = "display") =>
        \A i \in 1..Len(Sentences) :
            (last.line = Bad(Sentences[i]) /\ nmea_checksum_ok(Good(Sentences[i]))) =>
                LET g == handle_sentence(last.pre, Good(Sentences[i]))
                    b == handle_sentence(last.pre, Sentences[i].body)
                IN  /\ ~nmea_checksum_ok(last.line)
                    /\ NavFields(Worker) = NavFields(g)
                    /\ NavFields(Worker) = NavFields(b)
                    /\ nav.bad_count = last.pre.nav.bad_count + 1
                    /\ nav.ok_count = last.pre.nav.ok_count
                    /\ g.nav.ok_count = last.pre.nav.ok_count + 1
                    /\ g.nav.bad_count = last.pre.nav.bad_count

\* a GGA sentence with a wrong checksum was counted bad and decoded
C6_Witness ==
    /\ Handled /\ frontend = "display"
    /\ last.line = Bad(Sentences[1])
    /\ last.pre.nav.utc = None
    /\ nav.bad_count = last.pre.nav.bad_count + 1
    /\ nav.utc = Some(<<"1", "2", ":", "3", "5", ":", "1", "9">>)
    /\ nav.hdop = Some(9)
    /\ nav.alt_m = Some(5454)

\* the least number of fields handle_sentence asks of each type it decodes
MinFields == [t \in {GGA, GSA, GSV, ZDA, HDT} |->
                 IF t = GGA THEN 14 ELSE IF t = GSA THEN 17
                 ELSE IF t = GSV THEN 4 ELSE IF t = ZDA THEN 6 ELSE 2]

\* the sentence is of no decoded type, or has too few fields for its type
NonConforming(line) ==
    LET sf == split_fields(line)
    IN  \/ sf.typ = None
        \/ sf.typ[1] \notin DOMAIN MinFields
        \/ Len(sf.f) < MinFields[sf.typ[1]]

\* what a non-conforming sentence must leave alone
Framed(w) ==
    [w EXCEPT !.nav = [w.nav EXCEPT !.ok_count = 0, !.bad_count = 0,
                                    !.last_talker = None]]

\* C7: in both front ends a sentence of an unrecognised type, or with fewer
\* fields than its type requires, changes nothing but ok_count/bad_count
\* and last_talker
C7_FrameNonConforming ==
    (Handled /\ NonConforming(last.line)) => Framed(Worker) = Framed(last.pre)

\* a GGA sentence one field short arrived after values were known
C7_Witness ==
    /\ Handled
    /\ last.line = Good(Sentences[3])
    /\ split_fields(last.line).typ = Some(GGA)
    /\ Len(split_fields(last.line).f) = 13
    /\ last.pre.nav.hdop # None
    /\ last.pre.nav.hdop # Some(9)
    /\ nav.ok_count = last.pre.nav.ok_count + 1

RECURSIVE SumOver(_, _)
\* the sum of g(a) over the samples of a sequence
SumOver(g(_), samples) ==
    IF samples = <<>> THEN 0 ELSE g(Head(samples)) + SumOver(g, Tail(samples))

SinOfHeading(d) == sin(norm360(d))
CosOfHeading(d) == cos(norm360(d))

\* atan2 of the sum of sines and the sum of cosines, normalized to [0,360)
CircularMean(headings) ==
    norm360(atan2deg(SumOver(SinOfHeading, headings), SumOver(CosOfHeading, headings)))

\* the last n elements of a sequence
Recent(s, n) == SubSeq(s, Len(s) - n + 1, Len(s))

\* C8: with the window size fixed at construction, after k >= 1 add()
\* calls value() is the circular mean of the most recent min(k, window)
\* samples added; value() is unset exactly when no sample is retained
C8_MeanOfRecent ==
    /\ (value(fir) = None) <=> (fir.angles = <<>>)
    /\ (~resized /\ Len(added) >= 1) =>
          value(fir) = Some(CircularMean(Recent(added, Min(Len(added), fir.window))))

\* more samples were added than a window of at least 2 holds
C8_Witness ==
    /\ ~resized
    /\ fir.window >= 2
    /\ Len(added) > fir.window
    /\ last.op = "add"
    /\ Len(last.pre.angles) = fir.window
    /\ Head(fir.angles) # Head(last.pre.angles)

\* C9: after every add(), set_window() and reset(), in any order, sum_sin
\* and sum_cos are the sums of the sines and cosines of exactly the samples
\* held in the window, and both are 0 when the window is empty
C9_RunningSums ==
    /\ fir.sum_sin = SumOver(sin, fir.angles)
    /\ fir.sum_cos = SumOver(cos, fir.angles)
    /\ fir.angles = <<>> => (fir.sum_sin = 0 /\ fir.sum_cos = 0)

\* a shrink evicted samples and left some
C9_Witness ==
    /\ last.op = "set_window"
    /\ Len(last.pre.angles) >= Len(fir.angles) + 2
    /\ Len(fir.angles) >= 1
    /\ fir.sum_sin # last.pre.sum_sin

\* C10: after set_window(n) the window size is max(1, n) for every integer
\* n, and the constructor clamps its argument the same way
C10_WindowClamped ==
    (last.op \in {"set_window", "init"}) =>
        fir.window = (IF last.n >= 1 THEN last.n ELSE 1)

\* a window larger than 1 was set to a value below 1
C10_Witness ==
    /\ last.op = "set_window"
    /\ last.n < 1
    /\ last.pre.window > 1
    /\ fir.window = 1

\* the representative in [0, 360) degrees of a heading, in tenths
InTurn(d) == CHOOSE a \in {d + 3600 * k : k \in -20..20} : 0 <= a /\ a < 3600

\* C11: from every filter state and for every angle d, add(d) followed at
\* once by set_window(1) leaves exactly one retained sample, the one just
\* added, and value() is d brought into [0, 360)
C11_AddThenShrinkToOne ==
    (last.op = "set_window" /\ last.n = 1 /\ last.prev.op = "add") =>
        /\ fir.window = 1
        /\ fir.angles = <<InTurn(last.prev.arg)>>
        /\ value(fir) = Some(InTurn(last.prev.arg))

\* a full window of three took a sample outside [0, 360) and shrank to one
C11_Witness ==
    /\ last.op = "set_window" /\ last.n = 1 /\ last.prev.op = "add"
    /\ last.prev.arg = -900
    /\ Len(last.pre.angles) = 3
    /\ last.pre.angles[1] # last.pre.angles[3]
    /\ value(fir) = Some(2700)

\* C12: set_window(n) called twice in a row leaves the window size, the
\* retained samples, the two sums and value() as the first call left them
C12_SetWindowIdempotent ==
    (last.op = "set_window" /\ last.prev.op = "set_window" /\ last.prev.arg = last.n) =>
        /\ fir.window = last.pre.window
        /\ fir.angles = last.pre.angles
        /\ fir.sum_sin = last.pre.sum_sin
        /\ fir.sum_cos = last.pre.sum_cos
        /\ value(fir) = value(last.pre)

\* the first of the two calls shrank a window holding two samples to one
C12_Witness ==
    /\ last.op = "set_window" /\ last.prev.op = "set_window"
    /\ last.prev.arg = last.n
    /\ last.n = 1
    /\ last.prev.held = 2
    /\ Len(last.pre.angles) = 1
    /\ fir.angles = <<InTurn(added[Len(added)])>>
    /\ fir.angles[1] # InTurn(added[Len(added) - 1])

\* the heading an HDT sentence carries in field 0, None if it carries none
HdtHeading(line) ==
    LET sf == split_fields(line)
    IN  IF sf.typ = Some(HDT) /\ Len(sf.f) >= 2 THEN safe_float(sf.f[1]) ELSE None

\* C13: in the display worker with window size 2 and offset 0, an HDT
\* sentence whose heading and the heading retained before it are x and
\* 360 - x, 0 < x < 90, in either order, leaves the filtered heading at 0
\* degrees; in particular 359.0 followed by 1.0 gives 0 and not 180
C13_WrapAround ==
    (/\ Handled /\ frontend = "display"
     /\ HdtHeading(last.line) # None
     /\ fir.window = 2 /\ heading_offset_deg = 0
     /\ Len(last.pre.fir.angles) >= 1) =>
        LET a == last.pre.fir.angles[Len(last.pre.fir.angles)]
            b == InTurn(HdtHeading(last.line)[1])
        IN  (a + b = 3600 /\ (a < 900 \/ b < 900)) => filtered_heading = Some(0)

\* $GPHDT,359.0,T*3A was handled and then $HEHDT,1.0,T*2E
C13_Witness ==
    /\ Handled /\ frontend = "display"
    /\ last.line = Good(Sentences[15])
    /\ HdtHeading(last.line) = Some(10)
    /\ last.pre.nav.heading_T = Some(3590)
    /\ last.pre.fir.angles = <<3590>>
    /\ last.pre.filtered_heading = Some(3590)
    /\ fir.angles = <<3590, 10>>
    /\ filtered_heading = Some(0)

\* C15: in both front ends, after any sequence of handled sentences the
\* raw heading heading_T is unset or lies in [0, 360)
C15_HeadingInRange ==
    nav.heading_T = None \/ (0 <= nav.heading_T[1] /\ nav.heading_T[1] < 3600)

\* the fields of the last handled sentence when it is of type t with at
\* least k fields, else the empty tuple
FieldsOf(t, k) ==
    IF Handled /\ split_fields(last.line).typ = Some(t) /\ Len(split_fields(last.line).f) >= k
    THEN split_fields(last.line).f ELSE <<>>

\* C16: in both front ends, after a GGA sentence with at least 14 fields
\* utc is HH:MM:SS from the first six characters of field 0 if it has six,
\* fix is the integer of field 5 or 0, sats_used the integer of field 6 if
\* there is one, hdop and alt_m the numbers of fields 7 and 8 if present
\* and decodable; the sentence $GPGGA,123519,...*47 gives UTC 12:35:19,
\* fix label GPS, 8 satellites used, HDOP 0.9, altitude "545.4 m" and one
\* more checksum counted OK
C16_GGAMapping ==
    LET f == FieldsOf(GGA, 14)
    IN  f # <<>> =>
          /\ Len(f[1]) >= 6 =>
                nav.utc = Some(<<f[1][1], f[1][2], ":", f[1][3], f[1][4], ":",
                                 f[1][5], f[1][6]>>)
          /\ nav.fix = (IF safe_int(f[6]) = None THEN 0 ELSE safe_int(f[6])[1])
          /\ safe_int(f[7]) # None => nav.sats_used = safe_int(f[7])
          /\ (f[8] # <<>> /\ safe_float(f[8]) # None) => nav.hdop = safe_float(f[8])
          /\ (f[9] # <<>> /\ safe_float(f[9]) # None) => nav.alt_m = safe_float(f[9])
          /\ last.line = Good(Sentences[1]) =>
                /\ as_dict(nav).UTC = <<"1", "2", ":", "3", "5", ":", "1", "9">>
                /\ as_dict(nav).Fix = <<"G", "P", "S">>
                /\ nav.sats_used = Some(8)
                /\ as_dict(nav).SatsUsed = <<"8">>
                /\ nav.hdop = Some(9)
                /\ as_dict(nav).HDOP = <<"0", ".", "9">>
                /\ as_dict(nav).Altitude = <<"5", "4", "5", ".", "4", " ", "m">>
                /\ nav.ok_count = last.pre.nav.ok_count + 1
                /\ nav.bad_count = last.pre.nav.bad_count

\* the example sentence was handled after a GSA sentence had set other
\* values of sats_used and hdop
C16_Witness ==
    /\ FieldsOf(GGA, 14) # <<>>
    /\ last.line = Good(Sentences[1])
    /\ last.pre.nav.sats_used = Some(5)
    /\ last.pre.nav.hdop = Some(13)
    /\ last.pre.nav.fix = 0
    /\ nav.fix = 1
    /\ nav.alt_m = Some(5454)
    /\ nav.ok_count = 2

\* a field with at least one character that is not whitespace
NonBlank(x) == \E i \in 1..Len(x) : x[i] \notin Whitespace

\* C17: in both front ends, after a GSA sentence with at least 17 fields
\* sats_used is the number of non-blank entries among fields 2 to 13 when
\* that number is above 0, and is what it was when all twelve are blank
C17_GSAUsed ==
    LET f  == FieldsOf(GSA, 17)
        nb == Cardinality({k \in 2..13 : NonBlank(f[k + 1])})
    IN  f # <<>> =>
          IF nb > 0 THEN nav.sats_used = Some(nb)
          ELSE nav.sats_used = last.pre.nav.sats_used

\* five of twelve slots were filled, after a GGA sentence had reported 8
C17_Witness ==
    /\ FieldsOf(GSA, 17) # <<>>
    /\ last.line = Good(Sentences[4])
    /\ Cardinality({k \in 2..13 : NonBlank(FieldsOf(GSA, 17)[k + 1])}) = 5
    /\ last.pre.nav.sats_used = Some(8)
    /\ nav.sats_used = Some(5)

\* the text of a decimal integer: at least w digits, zero padded
Padded(n, w) == [i \in 1..(w - Len(DecOf(n))) |-> "0"] \o DecOf(n)

\* C18: in both front ends, after a ZDA sentence with at least 6 fields
\* date is YYYY-MM-DD of year = field 3, month = field 2, day = field 1 if
\* all three decode to integers other than zero, and keeps its previous
\* value if any of them is empty, not a number or zero
C18_ZDADate ==
    LET f == FieldsOf(ZDA, 6)
        y == safe_int(f[4])
        m == safe_int(f[3])
        d == safe_int(f[2])
    IN  f # <<>> =>
          IF y # None /\ m # None /\ d # None /\ y # Some(0) /\ m # Some(0) /\ d # Some(0)
          THEN (y[1] > 0 /\ m[1] > 0 /\ d[1] > 0) =>
                 nav.date = Some(Padded(y[1], 4) \o <<"-">> \o Padded(m[1], 2)
                                 \o <<"-">> \o Padded(d[1], 2))
          ELSE nav.date = last.pre.nav.date

\* a date was known and a later ZDA sentence with unpadded day and month
\* replaced it
C18_Witness ==
    /\ FieldsOf(ZDA, 6) # <<>>
    /\ last.line = Good(Sentences[24])
    /\ last.pre.nav.date = Some(<<"2", "0", "0", "2", "-", "0", "7", "-", "0", "4">>)
    /\ nav.date = Some(<<"2", "0", "0", "3", "-", "0", "8", "-", "0", "5">>)

\* C14: in the display worker, an HDT sentence with at least 2 fields whose
\* field 0 decodes to h adds exactly the one sample h brought into [0, 360),
\* without the offset, to the filter under the window size then in force,
\* and sets filtered_heading to the filter's value plus the offset then in
\* force, brought into [0, 360); if field 0 does not decode, the filter and
\* filtered_heading stay as they were
C14_HDTHandling ==
    (last.op = "read" /\ Len(last.lines) = 1 /\ Len(split_fields(last.lines[1]).f) >= 2
     /\ split_fields(last.lines[1]).typ = Some(HDT)) =>
        LET h   == safe_float(split_fields(last.lines[1]).f[1])
            fed == Append(last.pre.fir.angles, InTurn(h[1]))
            now == last.post
        IN  IF h = None
            THEN /\ now.fir = last.pre.fir
                 /\ now.filtered_heading = last.pre.filtered_heading
            ELSE /\ now.fir.window = last.pre.fir.window
                 /\ now.fir.angles = Recent(fed, Min(Len(fed), last.pre.fir.window))
                 /\ now.fir.sum_sin = SumOver(sin, now.fir.angles)
                 /\ now.fir.sum_cos = SumOver(cos, now.fir.angles)
                 /\ now.filtered_heading =
                        Some(InTurn(CircularMean(now.fir.angles)
                                    + last.pre.heading_offset_deg))

\* $HEHDT,-10,T arrived after the window had been set to 1 with a sample
\* retained and the offset to 90
C14_Witness ==
    /\ last.op = "read"
    /\ last.lines = <<Good(Sentences[16])>>
    /\ last.pre.fir.window = 1
    /\ last.pre.fir.angles = <<3590>>
    /\ last.pre.heading_offset_deg = 900
    /\ last.post.fir.angles = <<3500>>
    /\ last.post.filtered_heading = Some(800)

\* C19: if the stop event is set while the worker is in its loop, and
\* stays set, and every read returns within its timeout, the worker
\* eventually leaves the loop, closes the serial port and terminates
C19_CancellationLiveness ==
    (stop_event /\ pc \in {"loop", "read", "push"}) ~> (pc = "done" /\ ser = "closed")

\* a worker that had handled a line was stopped, closed the port and ended
C19_Witness ==
    /\ stop_event
    /\ pc = "done"
    /\ ser = "closed"
    /\ Len(handed) >= 1
    /\ logq[Len(logq)] = ClosedMsg

\* both threads are between operations
Quiescent == pc = "hdt" /\ gui.at = "idle"

\* C20: whenever a set_fir_window or set_heading_offset call of the control
\* thread and the worker's handling of HDT sentences have both run to their
\* end, however their steps interleaved, the filter retains no more samples
\* than its window, sum_sin and sum_cos are the sums over the retained
\* samples, and after an add the window is not empty and the filtered
\* heading is defined
C20_AtomicUpdates ==
    Quiescent =>
        /\ Len(fir.angles) <= fir.window
        /\ fir.sum_sin = SumOver(sin, fir.angles)
        /\ fir.sum_cos = SumOver(cos, fir.angles)
        /\ ncalls >= 1 => (fir.angles # <<>> /\ filtered_heading # None)

\* C21: a worker whose open failed ends with exactly the one error message
\* on the log queue, no sentence handled and no snapshot published; a worker
\* whose read failed ends with NavigationState as it was at the failure and
\* with exactly one message on the log queue after the failure that is not
\* the ordinary closing message, i.e. the failure reported once
C21_FailureReportedOnce ==
    /\ (pc = "done" /\ ser = "unopened") =>
            (logq = <<OpenErrorMsg>> /\ handed = <<>> /\ ncalls = 0 /\ q = <<>>)
    /\ (pc = "done" /\ last.op = "readfail") =>
            /\ nav = last.nav
            /\ ser = "closed"
            /\ Cardinality({i \in DOMAIN logq :
                               i > last.logged /\ logq[i] # ClosedMsg}) = 1

\* C22: for every byte stream and chunking, after each chunk every line
\* handed to handle_sentence so far is non-empty, neither starts nor ends
\* with whitespace and contains no CR or LF; the display worker's log queue
\* holds the same lines; and the accumulator contains no CR or LF and is
\* exactly the part of the stream after its last CR or LF
C22_NoBlankLine ==
    LET terms == {i \in DOMAIN stream : stream[i] \in {"\r", "\n"}}
        after == IF terms = {} THEN 0
                 ELSE CHOOSE i \in terms : \A j \in terms : j <= i
    IN  /\ \A k \in DOMAIN handed :
               /\ handed[k] # <<>>
               /\ handed[k][1] \notin Whitespace
               /\ handed[k][Len(handed[k])] \notin Whitespace
               /\ \A i \in DOMAIN handed[k] : handed[k][i] \notin {"\r", "\n"}
        /\ frontend = "display" => logq = handed
        /\ \A i \in DOMAIN buf : buf[i] \notin {"\r", "\n"}
        /\ buf = SubSeq(stream, after + 1, Len(stream))

\* an empty line and a line with a leading blank were framed: only the
\* trimmed second line was handed on, and a blank waits in the accumulator
C22_Witness ==
    /\ last.op = "read"
    /\ stream = <<"\n", " ", "a", "\r", " ">>
    /\ handed = <<(<<"a">>)>>
    /\ buf = <<" ">>

C24_SingleLiveWorker ==
    Cardinality({i \in DOMAIN pc : IsAlive(i)}) <= 1

\* C25: whenever the worker puts a snapshot on the queue, the filtered
\* heading in it is unset or equals the circular mean of the samples the
\* filter retains at that moment plus the offset carried in that snapshot,
\* brought into [0, 360)
C25_SnapshotConsistent ==
    [][q' # q =>
          LET d == q'[Len(q')]
          IN  \/ d.filtered_heading = None
              \/ /\ fir.angles # <<>>
                 /\ d.filtered_heading =
                        Some(InTurn(CircularMean(fir.angles) + d.offset_deg))]_vars

\* what run() itself puts on the log queue
RunMessages == {OpenedMsg, OpenErrorMsg, ClosedMsg}

\* the lines among the items the consumer has taken, and among all items
\* put so far
SeenLines == SelectSeq(gui.seen, LAMBDA m : m \notin RunMessages)
PutLines == SelectSeq(gui.seen \o logq, LAMBDA m : m \notin RunMessages)

\* C26: in the display worker, at every moment the lines put on the log
\* queue so far are, in order and each once, the first lines the framer
\* yields on the bytes received; a line is put only after its
\* handle_sentence call has returned, and every handled line but the one
\* whose put is due has been put; and what the consumer has taken, however
\* many items each poll took, is a prefix of those lines
C26_LogOrder ==
    LET framed == FrameLoop(stream, <<>>).lines
    IN  /\ Len(PutLines) <= Len(framed)
        /\ PutLines = SubSeq(framed, 1, Len(PutLines))
        /\ Len(PutLines) <= ncalls
        /\ PutLines = SubSeq(handed, 1, Len(PutLines))
        /\ Len(handed) - Len(PutLines) = (IF pc = "put" THEN 1 ELSE 0)
        /\ SeenLines = SubSeq(framed, 1, Len(SeenLines))
        /\ pc = "done" => PutLines = framed

\* a chunk of two sentences: the consumer took the first line before the
\* second was handled, and the second is handled and waits to be put
C26_Witness ==
    /\ pc = "put"
    /\ Len(tmp.lines) = 1
    /\ handed = <<Good(Sentences[14]), Good(Sentences[16])>>
    /\ SeenLines = <<Good(Sentences[14])>>
    /\ logq = <<>>

\* C27: after any sequence of add, set_window and reset calls the retained
\* samples are the most recent of the samples added since the last reset,
\* in the order they were added; they are at most as many as the window
\* size, which is at least 1; an add or a set_window removes samples only
\* from the old end and only as many as exceed the window; and a
\* set_window that does not shrink the window leaves the retained samples
\* as they were, so an evicted sample never comes back
C27_WindowContents ==
    LET since == [i \in DOMAIN added |-> InTurn(added[i])]
        held  == Len(fir.angles)
    IN  /\ fir.window >= 1
        /\ held <= fir.window
        /\ held <= Len(since)
        /\ fir.angles = Recent(since, held)
        /\ last.op = "add" =>
               LET fed == Append(last.pre.angles, InTurn(last.deg))
               IN  /\ held = Min(Len(fed), fir.window)
                   /\ fir.angles = Recent(fed, held)
        /\ last.op = "set_window" =>
               /\ held = Min(Len(last.pre.angles), fir.window)
               /\ fir.angles = Recent(last.pre.angles, held)
               /\ fir.window >= last.pre.window => fir.angles = last.pre.angles
        /\ last.op = "reset" => held = 0

\* two samples were added under window 2, the window was shrunk to 1 and
\* then enlarged to 2 again: only the newer sample is retained
C27_Witness ==
    /\ last.op = "set_window" /\ last.n = 2
    /\ last.prev.op = "set_window" /\ last.prev.arg = 1 /\ last.prev.held = 2
    /\ Len(added) = 2 /\ added[1] # added[2]
    /\ fir.window = 2
    /\ fir.angles = <<InTurn(added[2])>>

====
